---- MODULE Spec2Model ----
(***************************************************************************)
(* czk: the projection and reconciliation engine of czk_tool/report.py.    *)
(*                                                                         *)
(* build_rows(groups, mode) is modelled step by step: the loop over the    *)
(* groups, the per-group decision (_project_group_aeb in "test" mode,      *)
(* _resolve_execute_group with its sequential filesystem probes in         *)
(* "execute" mode), the final rows.sort and the renumbering pass.          *)
(*                                                                         *)
(* Strings (paths) are finite sequences of character codes, compared as    *)
(* Python compares str: code point by code point, a proper prefix first.   *)
(* Characters are their code points: <<97>> = "a", <<97,98>> = "ab",       *)
(* <<98>> = "b".  The empty sequence is the empty string.                  *)
(***************************************************************************)
EXTENDS Integers, Sequences, FiniteSets

VARIABLES
    groups,     \* build_rows argument: list of groups, each a list of items
    mode,       \* build_rows argument: "test" | "execute"
    fs,         \* the filesystem: path -> "exists" | "missing" | "oserror"
    pc,         \* position of the caller / build_rows
    gi,         \* build_rows: 1-based position of the for loop over groups
    ii,         \* _resolve_execute_group: position of the probing comprehension
    existing,   \* _resolve_execute_group: the list `existing` built so far
    rows,       \* build_rows: the local list `rows`
    returned,   \* the row lists returned by the calls made so far, in order
    fsAtCall,   \* the filesystem as it was when each call was entered
    probes,     \* number of _exists calls made so far
    seen,       \* _resolve_execute_group: the probes of the group, in order
    payload,    \* the JSON document the scanner left at json_path
    error,      \* the exception in flight, if any
    total_found,    \* _scan_one_media: result of count_media_files
    csv_file,   \* the CSV artifact at csv_path
    summary,    \* _scan_one_media: the MediaSummary, once built
    read_rows,  \* the rows read back from the CSV artifact
    command,    \* main: args.command
    media,      \* main: args.media
    media_targets,  \* main: the media types to scan, in order
    env,        \* main: what the machine offers (binaries, target directory,
                \* the exit codes the scanner and the DuckDB shell would give)
    scans,      \* the _scan_one_media calls made so far, in order
    exit,       \* how main ended, once it has
    out_dir,    \* the artifact files present in the reports directory
    runs        \* per run of czk: where its search for artifact paths stands

engine == <<groups, mode, fs, pc, gi, ii, existing, rows, returned, fsAtCall, probes, seen>>

stage == <<payload, error, total_found, csv_file, summary, read_rows>>

cli == <<command, media, media_targets, env, scans, exit, out_dir, runs>>

vars == <<engine, stage, cli>>

----------------------------------------------------------------------------
(* Bounds of the explored inputs.                                          *)

MaxItems == 3       \* items per group when a single group is explored
MaxGroups == 2      \* groups per call when the row assembly is explored

Paths == {<<97>>, <<97, 98>>, <<98>>}      \* "a", "ab", "b"
Sizes == {0, 1}
Dates == {0, 1}
RowPaths == {<<97, 98>>, <<98>>}      \* paths in the row assembly: "ab", "b"
RowGroupLens == 0..2                    \* group lengths in the row assembly

----------------------------------------------------------------------------
(* Values and pure helpers.                                                *)

\* A JSON number as Python holds it: an int, or a float counted in halves.
IntVal(n) == [tag |-> "int", val |-> n]

\* str < str in Python.
RECURSIVE StrLess(_, _)
StrLess(a, b) ==
    IF a = <<>> THEN b # <<>>
    ELSE IF b = <<>> THEN FALSE
    ELSE IF Head(a) = Head(b) THEN StrLess(Tail(a), Tail(b))
    ELSE Head(a) < Head(b)

\* int(x) for a float given in halves: truncation toward zero.
IntOfHalves(h) == IF h >= 0 THEN h \div 2 ELSE -((-h) \div 2)

\* The path of an item whose path is usable (PathRaises below).
_path_value(item) == item.path

_size_value(item) ==
    IF item.size.tag \in {"int", "bool"} THEN item.size.val
    ELSE IF item.size.tag = "float" THEN IntOfHalves(item.size.val)
    ELSE 0

_modified_date_value(item) ==
    IF item.modified_date.tag \in {"int", "bool"} THEN item.modified_date.val
    ELSE IF item.modified_date.tag = "float" THEN IntOfHalves(item.modified_date.val)
    ELSE 0

\* sorted()/list.sort(): the stable sort of s, where before holds the pairs
\* <<i, j>> of positions with key(s[i]) < key(s[j]).
StableSort(s, before) ==
    LET n == Len(s)
        rank(i) == 1 + Cardinality({j \in 1..n :
                        <<j, i>> \in before \/ (<<i, j>> \notin before /\ j < i)})
    IN  [k \in 1..n |-> s[CHOOSE i \in 1..n : rank(i) = k]]

\* Tuple comparison of the sort key (-size, modified_date, path).
ItemKeyLessBySmallest(a, b) ==
    \/ _size_value(a) < _size_value(b)
    \/ /\ _size_value(a) = _size_value(b)
       /\ \/ _modified_date_value(a) < _modified_date_value(b)
          \/ /\ _modified_date_value(a) = _modified_date_value(b)
             /\ StrLess(_path_value(a), _path_value(b))

ItemKeyLessWithoutPath(a, b) ==
    \/ -_size_value(a) < -_size_value(b)
    \/ /\ -_size_value(a) = -_size_value(b)
       /\ _modified_date_value(a) < _modified_date_value(b)

ItemKeyLess(a, b) ==
    \/ -_size_value(a) < -_size_value(b)
    \/ /\ -_size_value(a) = -_size_value(b)
       /\ \/ _modified_date_value(a) < _modified_date_value(b)
          \/ /\ _modified_date_value(a) = _modified_date_value(b)
             /\ StrLess(_path_value(a), _path_value(b))

ItemOrder(s) ==
    {ij \in (1..Len(s)) \X (1..Len(s)) : ItemKeyLess(s[ij[1]], s[ij[2]])}

\* Plain comparison of strings, the key of sorted(removed).
StrOrder(s) ==
    {ij \in (1..Len(s)) \X (1..Len(s)) : StrLess(s[ij[1]], s[ij[2]])}

PathsOf(items) == [k \in 1..Len(items) |-> _path_value(items[k])]

Decision(keep, remove) == [keep |-> keep, remove |-> remove]

_project_group_aeb_unordered(group) ==
    LET ordered == StableSort(group, ItemOrder(group))
        first == CHOOSE i \in 1..Len(group) : group[i] = ordered[1]
    IN  Decision(_path_value(ordered[1]),
                 PathsOf(SubSeq(group, 1, first - 1) \o SubSeq(group, first + 1, Len(group))))

_project_group_aeb(group) ==
    LET ordered == StableSort(group, ItemOrder(group))
    IN  Decision(_path_value(ordered[1]), PathsOf(Tail(ordered)))

\* `except OSError: return True`.
_exists_on_error(path) == fs[path] # "missing"

\* Path(path).exists() inside try/except OSError: a probe that fails is False.
_exists(path) == fs[path] = "exists"

InSeq(x, s) == \E k \in 1..Len(s) : s[k] = x

RECURSIVE Filter(_, _)
Filter(s, keepIt) ==
    IF s = <<>> THEN <<>>
    ELSE IF Head(s) \in keepIt THEN <<Head(s)>> \o Filter(Tail(s), keepIt)
    ELSE Filter(Tail(s), keepIt)

\* Lines 187-194 of _resolve_execute_group, once every path has been probed.
ResolveDecisionUnsorted(group, found) ==
    LET all_paths == PathsOf(group)
        removed == Filter(all_paths, {p \in Paths : ~InSeq(p, found)})
    IN  IF Len(found) = 1 /\ removed # <<>>
        THEN Decision(found[1], removed)
        ELSE _project_group_aeb(group)

ResolveDecisionAnySurvivor(group, found) ==
    LET all_paths == PathsOf(group)
        removed == Filter(all_paths, {p \in Paths : ~InSeq(p, found)})
    IN  IF Len(found) >= 1 /\ removed # <<>>
        THEN Decision(found[1], StableSort(removed, StrOrder(removed)))
        ELSE _project_group_aeb(group)

ResolveDecisionProbingAgain(group, found) ==
    LET all_paths == PathsOf(group)
        there == Filter(all_paths, {p \in Paths : fs[p] = "exists"})
        removed == Filter(all_paths, {p \in Paths : ~InSeq(p, there)})
    IN  IF Len(there) = 1 /\ removed # <<>>
        THEN Decision(there[1], StableSort(removed, StrOrder(removed)))
        ELSE _project_group_aeb(group)

ResolveDecision(group, found) ==
    LET all_paths == PathsOf(group)
        removed == Filter(all_paths, {p \in Paths : ~InSeq(p, found)})
    IN  IF Len(found) = 1 /\ removed # <<>>
        THEN Decision(found[1], StableSort(removed, StrOrder(removed)))
        ELSE _project_group_aeb(group)

\* int(x) raises OverflowError for an infinite float and ValueError for a
\* float that is not a number; json.loads yields both (Infinity, 1e999, NaN).
IntRaises(v) ==
    IF v.tag = "inf" THEN "OverflowError"
    ELSE IF v.tag = "nan" THEN "ValueError"
    ELSE "none"

\* _path_value raises ValueError unless item.get("path") is a non-empty str.
\* An item written without path_type holds a str under "path".
PathRaises(item) ==
    IF "path_type" \in DOMAIN item /\ item.path_type # "str" THEN "ValueError"
    ELSE IF item.path = <<>> THEN "ValueError"
    ELSE "none"

\* The key of one item: the size is converted first, then the date, then
\* the path is taken.
ItemKeyRaises(item) ==
    IF IntRaises(item.size) # "none" THEN IntRaises(item.size)
    ELSE IF IntRaises(item.modified_date) # "none" THEN IntRaises(item.modified_date)
    ELSE PathRaises(item)

\* sorted(group, key=...) computes the keys in order: the first failure is raised.
SortRaises(group) ==
    IF \E k \in 1..Len(group) : ItemKeyRaises(group[k]) # "none"
    THEN ItemKeyRaises(group[CHOOSE k \in 1..Len(group) :
                                /\ ItemKeyRaises(group[k]) # "none"
                                /\ \A l \in 1..(k - 1) : ItemKeyRaises(group[l]) = "none"])
    ELSE "none"

DuplicateRow(index, file_to_keep, files_to_remove, count) ==
    [index |-> index, file_to_keep |-> file_to_keep,
     files_to_remove |-> files_to_remove, count |-> count]

CandidateRow(d) == DuplicateRow(0, d.keep, d.remove, Len(d.remove))

\* Tuple comparison of the sort key (-count, file_to_keep).
RowKeyLessByFewest(a, b) ==
    \/ a.count < b.count
    \/ a.count = b.count /\ StrLess(a.file_to_keep, b.file_to_keep)

RowKeyLess(a, b) ==
    \/ -a.count < -b.count
    \/ -a.count = -b.count /\ StrLess(a.file_to_keep, b.file_to_keep)

RowOrder(s) ==
    {ij \in (1..Len(s)) \X (1..Len(s)) : RowKeyLess(s[ij[1]], s[ij[2]])}

\* The closing comprehension of build_rows: enumerate(rows, start=1).
ReindexedFromZero(sorted) ==
    [k \in 1..Len(sorted) |->
        DuplicateRow(k - 1, sorted[k].file_to_keep, sorted[k].files_to_remove, sorted[k].count)]

Reindexed(sorted) ==
    [k \in 1..Len(sorted) |->
        DuplicateRow(k, sorted[k].file_to_keep, sorted[k].files_to_remove, sorted[k].count)]

\* The dispatch on mode at line 211.
AlwaysReconciles(m) == TRUE

Reconciles(m) == m = "execute"

----------------------------------------------------------------------------
(* Inputs.                                                                 *)

SeqsUpTo(S, n) == UNION {[1..k -> S] : k \in 0..n}

Items == [path : Paths, size : {IntVal(n) : n \in Sizes},
          modified_date : {IntVal(n) : n \in Dates}]

\* Items that differ in path and size only.
SizedItems == [path : Paths, size : {IntVal(n) : n \in Sizes}, modified_date : {IntVal(0)}]

\* Items that differ in their path only.
PlainItems == [path : RowPaths, size : {IntVal(0)}, modified_date : {IntVal(0)}]

RowGroups == UNION {[1..k -> PlainItems] : k \in RowGroupLens}

FileSystems == [Paths -> {"exists", "missing"}]

\* The filesystems that differ on the paths of gs; no other path is ever probed.
FileSystemsFor(gs) ==
    {f \in FileSystems :
        \A p \in Paths : f[p] = "exists" =>
            \E g \in 1..Len(gs) : \E i \in 1..Len(gs[g]) : _path_value(gs[g][i]) = p}

----------------------------------------------------------------------------
(* The calls.                                                              *)

TypeOK ==
    /\ mode \in {"test", "execute"}
    /\ fs \in [Paths -> {"exists", "missing", "oserror"}]
    /\ pc \in {"load", "idle", "loop", "probe", "returned", "written", "read", "scanned", "raised",
               "main", "dispatch", "done"}
    /\ gi \in 1..(Len(groups) + 1)
    /\ probes \in Nat

\* JSON documents: an array holds its elements, anything else only its kind.
JsonArray(elems) == [tag |-> "array", elems |-> elems]

NoError == [kind |-> "none", what |-> "none", group |-> 0, item |-> 0]

NoFile == [written |-> FALSE, text |-> <<>>]

\* How main ended: `code` holds the returned exit code, `raised` the exception
\* that left main uncaught.
Running == [done |-> FALSE, code |-> <<>>, raised |-> "none"]

\* Nothing of the scan stage has happened.
StageIdle ==
    /\ payload = JsonArray(<<>>)
    /\ error = NoError
    /\ total_found = 0
    /\ csv_file = NoFile
    /\ summary = <<>>
    /\ read_rows = <<>>

\* build_rows is called on its own, outside main.
CliIdle ==
    /\ command = "test"
    /\ media = "both"
    /\ media_targets = <<>>
    /\ env = [czkawka |-> TRUE, duckdb |-> TRUE, target_dir |-> TRUE,
              scanner_code |-> 0, session_code |-> 0]
    /\ scans = <<>>
    /\ exit = Running
    /\ out_dir = {}
    /\ runs = <<>>

InitCommon ==
    /\ StageIdle
    /\ CliIdle
    /\ fs \in FileSystemsFor(groups)
    /\ pc = "idle"
    /\ gi = 1
    /\ ii = 1
    /\ existing = <<>>
    /\ rows = <<>>
    /\ returned = <<>>
    /\ fsAtCall = <<>>
    /\ probes = 0
    /\ seen = <<>>

\* One call on a single group: a projected call on a group of items of any
\* size and date, or a reconciled call on a group of items of any size.
InitGroup ==
    /\ \/ /\ mode = "test"
          /\ groups \in {<<g>> : g \in SeqsUpTo(Items, MaxItems)}
       \/ /\ mode = "execute"
          /\ groups \in {<<g>> : g \in SeqsUpTo(SizedItems, MaxItems)}
    /\ InitCommon

\* Calls on lists of groups.
Init ==
    /\ mode \in {"test", "execute"}
    /\ groups \in SeqsUpTo(RowGroups, MaxGroups)
    /\ InitCommon

\* Line 207: entry of build_rows, `rows = []`.
EnterKeepingRows ==
    /\ pc' = "loop"
    /\ gi' = 1
    /\ rows' = rows
    /\ fsAtCall' = Append(fsAtCall, fs)
    /\ UNCHANGED <<groups, mode, fs, ii, existing, returned, probes, seen>>
    /\ UNCHANGED <<stage, cli>>

Enter ==
    /\ pc' = "loop"
    /\ gi' = 1
    /\ rows' = <<>>
    /\ fsAtCall' = Append(fsAtCall, fs)
    /\ UNCHANGED <<groups, mode, fs, ii, existing, returned, probes, seen>>
    /\ UNCHANGED <<stage, cli>>

BuildRowsCall ==
    /\ pc = "idle"
    /\ Enter

\* A second call with the same arguments.
BuildRowsCallAgain ==
    /\ pc = "returned"
    /\ Len(returned) < 2
    /\ Enter

\* Lines 209-210: `if not group: continue`.
SkipEmptyGroupWithRow ==
    /\ pc = "loop"
    /\ gi <= Len(groups)
    /\ groups[gi] = <<>>
    /\ rows' = Append(rows, CandidateRow(Decision(<<>>, <<>>)))
    /\ gi' = gi + 1
    /\ UNCHANGED <<groups, mode, fs, pc, ii, existing, returned, fsAtCall, probes, seen>>
    /\ UNCHANGED <<stage, cli>>

SkipEmptyGroup ==
    /\ pc = "loop"
    /\ gi <= Len(groups)
    /\ groups[gi] = <<>>
    /\ gi' = gi + 1
    /\ UNCHANGED <<groups, mode, fs, pc, ii, existing, rows, returned, fsAtCall, probes, seen>>
    /\ UNCHANGED <<stage, cli>>

\* Lines 213-222: the projected decision and its candidate row.
ProjectGroup ==
    /\ pc = "loop"
    /\ gi <= Len(groups)
    /\ groups[gi] # <<>>
    /\ ~Reconciles(mode)
    /\ SortRaises(groups[gi]) = "none"
    /\ rows' = Append(rows, CandidateRow(_project_group_aeb(groups[gi])))
    /\ gi' = gi + 1
    /\ UNCHANGED <<groups, mode, fs, pc, ii, existing, returned, fsAtCall, probes, seen>>
    /\ UNCHANGED <<stage, cli>>

\* Lines 211-212, 184-185: enter _resolve_execute_group; the projection is
\* computed first.
ResolveEnter ==
    /\ pc = "loop"
    /\ gi <= Len(groups)
    /\ groups[gi] # <<>>
    /\ Reconciles(mode)
    /\ SortRaises(groups[gi]) = "none"
    /\ pc' = "probe"
    /\ ii' = 1
    /\ existing' = <<>>
    /\ seen' = <<>>
    /\ UNCHANGED <<groups, mode, fs, gi, rows, returned, fsAtCall, probes>>
    /\ UNCHANGED <<stage, cli>>

\* Line 186: one step of `[path for path in all_paths if _exists(path)]`.
Probe ==
    /\ pc = "probe"
    /\ ii <= Len(groups[gi])
    /\ LET path == _path_value(groups[gi][ii])
       IN  /\ existing' = IF _exists(path) THEN Append(existing, path) ELSE existing
           /\ seen' = Append(seen, [path |-> path, answer |-> _exists(path), fs |-> fs])
    /\ probes' = probes + 1
    /\ ii' = ii + 1
    /\ UNCHANGED <<groups, mode, fs, pc, gi, rows, returned, fsAtCall>>
    /\ UNCHANGED <<stage, cli>>

\* Lines 187-194 and 216-222: the reconciled decision and its candidate row.
ResolveDecide ==
    /\ pc = "probe"
    /\ ii > Len(groups[gi])
    /\ rows' = Append(rows, CandidateRow(ResolveDecision(groups[gi], existing)))
    /\ pc' = "loop"
    /\ gi' = gi + 1
    /\ UNCHANGED <<groups, mode, fs, ii, existing, returned, fsAtCall, probes, seen>>
    /\ UNCHANGED <<stage, cli>>

ProjectGroupRaisesSwallowed ==
    /\ pc = "loop"
    /\ gi <= Len(groups)
    /\ groups[gi] # <<>>
    /\ ~Reconciles(mode)
    /\ SortRaises(groups[gi]) # "none"
    /\ gi' = gi + 1
    /\ UNCHANGED <<groups, mode, fs, pc, ii, existing, rows, returned, fsAtCall, probes, seen>>
    /\ UNCHANGED <<stage, cli>>

\* Line 214: the sort inside _project_group_aeb raises; build_rows ends.
ProjectGroupRaises ==
    /\ pc = "loop"
    /\ gi <= Len(groups)
    /\ groups[gi] # <<>>
    /\ ~Reconciles(mode)
    /\ SortRaises(groups[gi]) # "none"
    /\ error' = [kind |-> SortRaises(groups[gi]), what |-> "key", group |-> gi, item |-> 0]
    /\ pc' = "raised"
    /\ UNCHANGED <<payload, total_found, csv_file, summary, read_rows>>
    /\ UNCHANGED <<groups, mode, fs, gi, ii, existing, rows, returned, fsAtCall, probes, seen>>
    /\ UNCHANGED cli

\* Lines 212 and 184: the sort inside _project_group_aeb raises at the entry
\* of _resolve_execute_group, before any probe; build_rows ends.
ResolveEnterRaises ==
    /\ pc = "loop"
    /\ gi <= Len(groups)
    /\ groups[gi] # <<>>
    /\ Reconciles(mode)
    /\ SortRaises(groups[gi]) # "none"
    /\ error' = [kind |-> SortRaises(groups[gi]), what |-> "key", group |-> gi, item |-> 0]
    /\ pc' = "raised"
    /\ UNCHANGED <<payload, total_found, csv_file, summary, read_rows>>
    /\ UNCHANGED <<groups, mode, fs, gi, ii, existing, rows, returned, fsAtCall, probes, seen>>
    /\ UNCHANGED cli

\* Lines 224-233: rows.sort, the renumbering pass and the return.
SortAndReturn ==
    /\ pc = "loop"
    /\ gi > Len(groups)
    /\ returned' = Append(returned, Reindexed(StableSort(rows, RowOrder(rows))))
    /\ pc' = "returned"
    /\ UNCHANGED <<groups, mode, fs, gi, ii, existing, rows, fsAtCall, probes, seen>>
    /\ UNCHANGED <<stage, cli>>

\* Between two calls other processes create and delete files.
FsChange ==
    /\ pc = "returned"
    /\ Len(returned) < 2
    /\ \E other \in FileSystemsFor(groups) : other # fs /\ fs' = other
    /\ UNCHANGED <<groups, mode, pc, gi, ii, existing, rows, returned, fsAtCall, probes, seen>>
    /\ UNCHANGED <<stage, cli>>

NextGroup ==
    \/ BuildRowsCall
    \/ SkipEmptyGroup
    \/ ProjectGroup
    \/ ResolveEnter
    \/ Probe
    \/ ResolveDecide
    \/ SortAndReturn

Next ==
    \/ BuildRowsCall
    \/ SkipEmptyGroup
    \/ ProjectGroup
    \/ ResolveEnter
    \/ Probe
    \/ ResolveDecide
    \/ SortAndReturn
    \/ FsChange
    \/ BuildRowsCallAgain

SpecGroup == InitGroup /\ [][NextGroup]_vars

Spec == Init /\ [][Next]_vars

----------------------------------------------------------------------------
(* Properties of the per-group decision, for build_rows on a single group. *)

\* The call on a single non-empty group has returned its one row.
OneRowReturned ==
    /\ pc = "returned"
    /\ Len(groups) = 1
    /\ groups[1] # <<>>
    /\ Len(returned[1]) = 1

TheGroup == groups[1]

TheRow == returned[1][1]

KeepThenRemove == <<TheRow.file_to_keep>> \o TheRow.files_to_remove

Range(s) == {s[k] : k \in 1..Len(s)}

Occurrences(x, s) == Cardinality({k \in 1..Len(s) : s[k] = x})

Permutations(n) == {p \in [1..n -> 1..n] : \A i, j \in 1..n : p[i] = p[j] => i = j}

Ascending(s) == \A k \in 1..(Len(s) - 1) : ~StrLess(s[k + 1], s[k])

\* C1: for every row returned by build_rows, in projected and in reconciled
\* mode, and for every non-empty group of items with non-empty string paths,
\* file_to_keep is not an element of files_to_remove.
C1_KeepNotInRemove ==
    OneRowReturned => ~InSeq(TheRow.file_to_keep, TheRow.files_to_remove)

\* C2: round-trip completeness: in either mode the sequence [file_to_keep]
\* followed by files_to_remove enumerates the set of paths of the group's
\* items exactly: every input path occurs, no foreign path occurs, and no
\* path occurs twice.
C2_RoundTrip ==
    OneRowReturned =>
        /\ Range(KeepThenRemove) = Range(PathsOf(TheGroup))
        /\ \A p \in Range(KeepThenRemove) : Occurrences(p, KeepThenRemove) = 1

\* The order the tie-break rule describes: a is at least as good to keep as b.
KeptBefore(a, b) ==
    \/ _size_value(a) > _size_value(b)
    \/ /\ _size_value(a) = _size_value(b)
       /\ _modified_date_value(a) < _modified_date_value(b)
    \/ /\ _size_value(a) = _size_value(b)
       /\ _modified_date_value(a) = _modified_date_value(b)
       /\ ~StrLess(_path_value(b), _path_value(a))

\* C3: in projected mode file_to_keep is the path of an item of maximum size;
\* among items of equal maximum size, of one with the smallest modified_date;
\* among items equal in both, the lexicographically smallest path. A larger
\* size wins regardless of modified_date.
C3_KeepIsBiggestOldestFirstPath ==
    (OneRowReturned /\ mode = "test") =>
        \E i \in 1..Len(TheGroup) :
            /\ _path_value(TheGroup[i]) = TheRow.file_to_keep
            /\ \A j \in 1..Len(TheGroup) :
                /\ _size_value(TheGroup[j]) <= _size_value(TheGroup[i])
                /\ _size_value(TheGroup[j]) = _size_value(TheGroup[i]) =>
                       _modified_date_value(TheGroup[i]) <= _modified_date_value(TheGroup[j])
                /\ ( /\ _size_value(TheGroup[j]) = _size_value(TheGroup[i])
                     /\ _modified_date_value(TheGroup[j]) = _modified_date_value(TheGroup[i]) ) =>
                       ~StrLess(_path_value(TheGroup[j]), _path_value(TheGroup[i]))

\* C3 witness: the kept item is bigger and newer than another item that comes
\* first in the input and has a smaller path.
C3_Witness ==
    /\ OneRowReturned
    /\ mode = "test"
    /\ Len(TheGroup) >= 2
    /\ _size_value(TheGroup[2]) > _size_value(TheGroup[1])
    /\ _modified_date_value(TheGroup[2]) > _modified_date_value(TheGroup[1])
    /\ StrLess(_path_value(TheGroup[1]), _path_value(TheGroup[2]))
    /\ TheRow.file_to_keep = _path_value(TheGroup[2])

\* C4: in projected mode files_to_remove is exactly the paths of all items
\* other than the first one of the group sorted ascending by the key
\* (-size, modified_date, path), in that sorted order; its length is the
\* group size minus one.
C4_RemoveIsSortedRest ==
    (OneRowReturned /\ mode = "test") =>
        /\ Len(TheRow.files_to_remove) = Len(TheGroup) - 1
        /\ \E p \in Permutations(Len(TheGroup)) :
            /\ \A k \in 1..(Len(TheGroup) - 1) : KeptBefore(TheGroup[p[k]], TheGroup[p[k + 1]])
            /\ \A k \in 1..Len(TheGroup) : KeepThenRemove[k] = _path_value(TheGroup[p[k]])

\* C4 witness: three items that the sort reverses.
C4_Witness ==
    /\ OneRowReturned
    /\ mode = "test"
    /\ Len(TheGroup) = 3
    /\ KeepThenRemove = <<_path_value(TheGroup[3]), _path_value(TheGroup[2]),
                          _path_value(TheGroup[1])>>
    /\ Cardinality(Range(KeepThenRemove)) = 3

ExistingItems == {i \in 1..Len(TheGroup) : fsAtCall[1][_path_value(TheGroup[i])] = "exists"}

MissingItems == (1..Len(TheGroup)) \ ExistingItems

C6_Fallback ==
    ( /\ OneRowReturned
      /\ mode = "execute"
      /\ \/ Cardinality(ExistingItems) = 0
         \/ Cardinality(ExistingItems) >= 2
         \/ MissingItems = {} ) =>
        LET projected == _project_group_aeb(TheGroup)
        IN  /\ TheRow.file_to_keep = projected.keep
            /\ TheRow.files_to_remove = projected.remove

\* C6 witness: two survivors and one missing item; the first survivor probed
\* is not the projected keep.
C6_Witness ==
    /\ OneRowReturned
    /\ mode = "execute"
    /\ Len(TheGroup) = 3
    /\ Cardinality(ExistingItems) = 2
    /\ \E i \in ExistingItems :
        /\ \A j \in ExistingItems : i <= j
        /\ _path_value(TheGroup[i]) # TheRow.file_to_keep
    /\ Cardinality(Range(PathsOf(TheGroup))) = 3

----------------------------------------------------------------------------
(* Properties of the row assembly and of repeated calls.                   *)

\* C7: global ordering: in every returned list count is non-increasing from
\* one row to the next, and for adjacent rows with equal count file_to_keep
\* is lexicographically non-decreasing.
C7_GlobalOrdering ==
    \A c \in 1..Len(returned) : \A k \in 1..(Len(returned[c]) - 1) :
        /\ returned[c][k].count >= returned[c][k + 1].count
        /\ returned[c][k].count = returned[c][k + 1].count =>
               ~StrLess(returned[c][k + 1].file_to_keep, returned[c][k].file_to_keep)

\* C7 witness: two rows returned in the reverse of the input order of their
\* groups, the first by its larger count.
C7_Witness ==
    /\ Len(returned) >= 1
    /\ Len(groups) = 2
    /\ Len(groups[1]) = 1
    /\ Len(groups[2]) = 2
    /\ Len(returned[1]) = 2
    /\ returned[1][1].count = 1
    /\ returned[1][2].count = 0
    /\ StrLess(returned[1][2].file_to_keep, returned[1][1].file_to_keep)

\* C8: the row at 1-based position i of a returned list has index = i: the
\* indices are exactly 1..n, and no returned row keeps the placeholder 0.
C8_IndexIsPosition ==
    \A c \in 1..Len(returned) : \A k \in 1..Len(returned[c]) :
        returned[c][k].index = k

\* C8 witness: a returned list of two rows.
C8_Witness ==
    /\ Len(returned) >= 1
    /\ Len(returned[1]) = 2
    /\ returned[1][2].index = 2

\* Every path of the groups exists during the first call iff it exists
\* during the second.
SameProbeAnswers ==
    \A g \in 1..Len(groups) : \A i \in 1..Len(groups[g]) :
        (fsAtCall[1][_path_value(groups[g][i])] = "exists")
            = (fsAtCall[2][_path_value(groups[g][i])] = "exists")

\* C9 as stated: two calls of build_rows with identical groups and identical
\* mode return identical row lists.
C9_Deterministic ==
    Len(returned) = 2 => returned[1] = returned[2]

\* C9 amended: two calls with identical groups and identical mode return
\* identical row lists in projected mode, and in reconciled mode whenever
\* every path of the groups exists during one call exactly if it exists
\* during the other.
C9_DeterministicGivenFilesystem ==
    (Len(returned) = 2 /\ (mode = "test" \/ SameProbeAnswers)) =>
        returned[1] = returned[2]

\* C9 witness: two reconciled calls that probed, saw the same files and
\* returned rows.
C9_Witness ==
    /\ Len(returned) = 2
    /\ mode = "execute"
    /\ SameProbeAnswers
    /\ probes >= 4
    /\ Len(returned[2]) = 2
    /\ \E g \in 1..Len(groups) : Len(groups[g]) = 2 /\
          returned[2][1].file_to_keep # _project_group_aeb(groups[g]).keep

\* C10: in projected mode build_rows performs no filesystem probe, and for the
\* same groups any two filesystem states give identical rows.
C10_ProjectedIgnoresFilesystem ==
    mode = "test" =>
        /\ probes = 0
        /\ Len(returned) = 2 => returned[1] = returned[2]

\* C10 witness: two projected calls with a path of a returned row existing
\* during one call and missing during the other.
C10_Witness ==
    /\ mode = "test"
    /\ Len(returned) = 2
    /\ Len(returned[1]) >= 1
    /\ returned[1][1].count >= 1
    /\ fsAtCall[1][returned[1][1].file_to_keep] # fsAtCall[2][returned[1][1].file_to_keep]
    /\ fsAtCall[1][returned[1][1].files_to_remove[1]] = "exists"

----------------------------------------------------------------------------
(* Properties of the row count.                                            *)

NonEmptyGroups == {g \in 1..Len(groups) : groups[g] # <<>>}

\* C14: in either mode build_rows returns exactly one row per non-empty group
\* and none for an empty group: as many rows as there are non-empty groups,
\* and the rows can be matched one to one with non-empty groups of their size.
C14_OneRowPerNonEmptyGroup ==
    \A c \in 1..Len(returned) :
        /\ Len(returned[c]) = Cardinality(NonEmptyGroups)
        /\ \E match \in [1..Len(returned[c]) -> NonEmptyGroups] :
              /\ \A k, l \in 1..Len(returned[c]) : match[k] = match[l] => k = l
              /\ \A k \in 1..Len(returned[c]) :
                    returned[c][k].count + 1 = Len(groups[match[k]])

C14_Witness ==
    /\ pc = "returned"
    /\ mode = "execute"
    /\ Len(groups) = 2
    /\ groups[1] = <<>>
    /\ Len(groups[2]) = 2
    /\ Len(returned[1]) = 1

----------------------------------------------------------------------------
(* load_duplicate_groups: the scanner's JSON report and its validation.    *)

\* A document that does not parse, and a parsed value that is no array
\* (an object, a string, a number, true, false or null).
Malformed == [tag |-> "malformed", elems |-> <<>>]

JsonOther == [tag |-> "other", elems |-> <<>>]

\* The "path" member of an object: a string, or absent, or another value.
StrPath(p) == [tag |-> "str", val |-> p]

AbsentPath == [tag |-> "absent", val |-> <<>>]

OtherPath == [tag |-> "other", val |-> <<>>]

Absent == [tag |-> "absent", val |-> 0]

\* An element of a group: an object with its members, or any other value.
JsonObject(path, size, modified_date) ==
    [tag |-> "object", path |-> path, size |-> size, modified_date |-> modified_date]

OtherItem == [tag |-> "other", path |-> AbsentPath, size |-> Absent, modified_date |-> Absent]

ValueError(what, index, item_index) ==
    [kind |-> "ValueError", what |-> what, group |-> index, item |-> item_index]

\* The two checks on an element, lines 71-79: "" when it passes.
ItemDefect(raw_item) ==
    IF raw_item.tag # "object" THEN "item"
    ELSE IF raw_item.path.tag # "str" \/ raw_item.path.val = <<>> THEN "path"
    ELSE ""

\* The validated item as build_rows reads it.
ParsedItem(raw_item) ==
    [path |-> raw_item.path.val, size |-> raw_item.size,
     modified_date |-> raw_item.modified_date]

\* The inner loop from item_index on: the first element that fails, or 0.
RECURSIVE FirstBadItem(_, _)
FirstBadItem(raw_group, item_index) ==
    IF item_index > Len(raw_group) THEN 0
    ELSE IF ItemDefect(raw_group[item_index]) # "" THEN item_index
    ELSE FirstBadItem(raw_group, item_index + 1)

\* The outer loop from index on, with the groups collected so far.
RECURSIVE LoadFrom(_, _, _)
LoadFrom(raw_data, index, collected) ==
    IF index > Len(raw_data) THEN [error |-> NoError, groups |-> collected]
    ELSE IF raw_data[index].tag # "array"
    THEN [error |-> ValueError("group", index, 0), groups |-> <<>>]
    ELSE LET raw_group == raw_data[index].elems
             bad == FirstBadItem(raw_group, 1)
         IN  IF bad # 0
             THEN [error |-> ValueError(ItemDefect(raw_group[bad]), index, bad),
                   groups |-> <<>>]
             ELSE LoadFrom(raw_data, index + 1,
                           Append(collected,
                                  [k \in 1..Len(raw_group) |-> ParsedItem(raw_group[k])]))

\* enumerate(...) without start=1.
RECURSIVE LoadFromZero(_, _, _)
LoadFromZero(raw_data, index, collected) ==
    IF index > Len(raw_data) THEN [error |-> NoError, groups |-> collected]
    ELSE IF raw_data[index].tag # "array"
    THEN [error |-> ValueError("group", index - 1, 0), groups |-> <<>>]
    ELSE LET raw_group == raw_data[index].elems
             bad == FirstBadItem(raw_group, 1)
         IN  IF bad # 0
             THEN [error |-> ValueError(ItemDefect(raw_group[bad]), index - 1, bad - 1),
                   groups |-> <<>>]
             ELSE LoadFromZero(raw_data, index + 1,
                               Append(collected,
                                      [k \in 1..Len(raw_group) |-> ParsedItem(raw_group[k])]))

load_duplicate_groups_from_zero(raw_data) ==
    IF raw_data.tag = "malformed" THEN [error |-> ValueError("json", 0, 0), groups |-> <<>>]
    ELSE IF raw_data.tag # "array" THEN [error |-> ValueError("top", 0, 0), groups |-> <<>>]
    ELSE LoadFromZero(raw_data.elems, 1, <<>>)

\* The result of the call: the error it raises, or the groups it returns.
load_duplicate_groups(raw_data) ==
    IF raw_data.tag = "malformed" THEN [error |-> ValueError("json", 0, 0), groups |-> <<>>]
    ELSE IF raw_data.tag # "array" THEN [error |-> ValueError("top", 0, 0), groups |-> <<>>]
    ELSE LoadFrom(raw_data.elems, 1, <<>>)

\* Documents: every kind of element, in groups of up to two elements.
RawItems ==
    {OtherItem} \cup
    {JsonObject(p, IntVal(0), IntVal(0)) :
        p \in {StrPath(q) : q \in RowPaths \cup {<<>>}} \cup {AbsentPath, OtherPath}}

RawGroups == {JsonOther} \cup {JsonArray(g) : g \in UNION {[1..k -> RawItems] : k \in RowGroupLens}}

Documents == {Malformed, JsonOther} \cup {JsonArray(d) : d \in SeqsUpTo(RawGroups, MaxGroups)}

\* _scan_one_media line 354: `groups = load_duplicate_groups(json_path)` returns.
LoadDuplicateGroups ==
    /\ pc = "load"
    /\ load_duplicate_groups(payload).error = NoError
    /\ groups' = load_duplicate_groups(payload).groups
    /\ pc' = "idle"
    /\ UNCHANGED <<mode, fs, gi, ii, existing, rows, returned, fsAtCall, probes, seen>>
    /\ UNCHANGED <<stage, cli>>

\* Line 354 raises: no group is handed to the caller.
LoadRaises ==
    /\ pc = "load"
    /\ load_duplicate_groups(payload).error # NoError
    /\ error' = load_duplicate_groups(payload).error
    /\ pc' = "raised"
    /\ UNCHANGED <<payload, total_found, csv_file, summary, read_rows>>
    /\ UNCHANGED <<groups, mode, fs, gi, ii, existing, rows, returned, fsAtCall, probes, seen>>
    /\ UNCHANGED cli

\* The loader on its own: any document, read once.
InitLoad ==
    /\ payload \in Documents
    /\ error = NoError
    /\ total_found = 0
    /\ csv_file = NoFile
    /\ summary = <<>>
    /\ read_rows = <<>>
    /\ CliIdle
    /\ groups = <<>>
    /\ mode = "test"
    /\ fs = [p \in Paths |-> "missing"]
    /\ pc = "load"
    /\ gi = 1
    /\ ii = 1
    /\ existing = <<>>
    /\ rows = <<>>
    /\ returned = <<>>
    /\ fsAtCall = <<>>
    /\ probes = 0
    /\ seen = <<>>

NextLoad ==
    \/ LoadDuplicateGroups
    \/ LoadRaises

SpecLoad == InitLoad /\ [][NextLoad]_vars

----------------------------------------------------------------------------
(* Properties of the loader.                                               *)

\* The defects of a parsed document, as positions counted from 1.
TopLevelNotArray == payload.tag # "array"

GroupsNotArray == {g \in 1..Len(payload.elems) : payload.elems[g].tag # "array"}

ItemsNotObject ==
    {gi_ii \in (1..Len(payload.elems)) \X RowGroupLens :
        /\ payload.elems[gi_ii[1]].tag = "array"
        /\ gi_ii[2] >= 1
        /\ gi_ii[2] <= Len(payload.elems[gi_ii[1]].elems)
        /\ payload.elems[gi_ii[1]].elems[gi_ii[2]].tag # "object"}

ItemsWithoutPath ==
    {gi_ii \in (1..Len(payload.elems)) \X RowGroupLens :
        /\ payload.elems[gi_ii[1]].tag = "array"
        /\ gi_ii[2] >= 1
        /\ gi_ii[2] <= Len(payload.elems[gi_ii[1]].elems)
        /\ payload.elems[gi_ii[1]].elems[gi_ii[2]].tag = "object"
        /\ payload.elems[gi_ii[1]].elems[gi_ii[2]].path \in {AbsentPath, OtherPath, StrPath(<<>>)}}

Defective ==
    \/ TopLevelNotArray
    \/ GroupsNotArray # {}
    \/ ItemsNotObject # {}
    \/ ItemsWithoutPath # {}

\* C15: once a parsed document has been loaded, the load has failed exactly
\* if the top-level value is no array, an element of it is no array, an
\* element of a group is no object, or an item's path is missing, no string
\* or empty; the error for a bad group names that group's position counted
\* from 1, the error for a bad item names the positions of its group and of
\* the item counted from 1; without any such defect the load succeeds and
\* hands over every group with every item.
C15_LoadFailsExactlyOnDefects ==
    (pc # "load" /\ payload.tag # "malformed") =>
        /\ Defective <=> (pc = "raised" /\ error.kind = "ValueError")
        /\ ~Defective =>
              /\ pc = "idle"
              /\ error = NoError
              /\ Len(groups) = Len(payload.elems)
              /\ \A g \in 1..Len(groups) :
                    /\ Len(groups[g]) = Len(payload.elems[g].elems)
                    /\ \A i \in 1..Len(groups[g]) :
                          StrPath(groups[g][i].path) = payload.elems[g].elems[i].path
        /\ (pc = "raised" /\ ~TopLevelNotArray) =>
              \/ error.what = "group" /\ error.item = 0 /\ error.group \in GroupsNotArray
              \/ error.what = "item" /\ <<error.group, error.item>> \in ItemsNotObject
              \/ error.what = "path" /\ <<error.group, error.item>> \in ItemsWithoutPath
        /\ (pc = "raised" /\ TopLevelNotArray) => error.what = "top"

C15_Witness ==
    /\ pc = "raised"
    /\ Len(payload.elems) = 2
    /\ Len(payload.elems[1].elems) = 2
    /\ error = ValueError("path", 2, 2)

----------------------------------------------------------------------------
(* The CSV artifact: write_csv and the readers, character by character.    *)

Comma == 44
Quote == 34
Backslash == 92
LF == 10
CR == 13
Space == 32
Minus == 45
Zero == 48
LeftBracket == 91
RightBracket == 93
LetterN == 110
LetterR == 114

\* A pseudo character standing for a run of RunLength letters "x": it lets a
\* short sequence denote a text longer than the csv module's field limit.
Run == 1114112
RunLength == 65536
FieldLimit == 131072    \* csv.field_size_limit(), never changed by the program

CharLen(c) == IF c = Run THEN RunLength ELSE 1

\* len() of the text a sequence denotes.
StrLen(t) == Len(t) + (RunLength - 1) * Cardinality({k \in 1..Len(t) : t[k] = Run})

\* CSV_COLUMNS and the alternative header of the index column.
COL_INDEX == <<105, 110, 100, 101, 120>>
COL_FILE_TO_KEEP == <<102, 105, 108, 101, 95, 116, 111, 95, 107, 101, 101, 112>>
COL_FILES_TO_REMOVE == <<102, 105, 108, 101, 115, 95, 116, 111, 95, 114, 101, 109, 111, 118, 101>>
COL_COUNT == <<99, 111, 117, 110, 116>>
COL_HASH == <<35>>
CSV_COLUMNS == <<COL_INDEX, COL_FILE_TO_KEEP, COL_FILES_TO_REMOVE, COL_COUNT>>

\* str(n) for an int.
RECURSIVE Digits(_)
Digits(n) == IF n < 10 THEN <<Zero + n>> ELSE Digits(n \div 10) \o <<Zero + (n % 10)>>

IntStr(n) == IF n < 0 THEN <<Minus>> \o Digits(-n) ELSE Digits(n)

\* json.dumps(list_of_str, ensure_ascii=False).
RECURSIVE JsonEscape(_)
JsonEscape(t) ==
    IF t = <<>> THEN <<>>
    ELSE (CASE Head(t) = Quote -> <<Backslash, Quote>>
            [] Head(t) = Backslash -> <<Backslash, Backslash>>
            [] Head(t) = LF -> <<Backslash, LetterN>>
            [] Head(t) = CR -> <<Backslash, LetterR>>
            [] OTHER -> <<Head(t)>>) \o JsonEscape(Tail(t))

JsonString(t) == <<Quote>> \o JsonEscape(t) \o <<Quote>>

RECURSIVE JsonJoin(_)
JsonJoin(list) ==
    IF list = <<>> THEN <<>>
    ELSE IF Len(list) = 1 THEN JsonString(list[1])
    ELSE JsonString(list[1]) \o <<Comma, Space>> \o JsonJoin(Tail(list))

json_dumps(list) == <<LeftBracket>> \o JsonJoin(list) \o <<RightBracket>>

\* csv.writer, dialect excel: QUOTE_MINIMAL, doublequote, lineterminator "\r\n".
RECURSIVE DoubleQuotes(_)
DoubleQuotes(t) ==
    IF t = <<>> THEN <<>>
    ELSE (IF Head(t) = Quote THEN <<Quote, Quote>> ELSE <<Head(t)>>) \o DoubleQuotes(Tail(t))

CsvNeedsQuotes(t) == \E k \in 1..Len(t) : t[k] \in {Comma, Quote, CR, LF}

CsvField(t) == IF CsvNeedsQuotes(t) THEN <<Quote>> \o DoubleQuotes(t) \o <<Quote>> ELSE t

RECURSIVE CsvJoin(_)
CsvJoin(fields) ==
    IF Len(fields) = 1 THEN CsvField(fields[1])
    ELSE CsvField(fields[1]) \o <<Comma>> \o CsvJoin(Tail(fields))

CsvLine(fields) == CsvJoin(fields) \o <<CR, LF>>

RowFields(row) ==
    <<IntStr(row.index), row.file_to_keep, json_dumps(row.files_to_remove), IntStr(row.count)>>

RECURSIVE CsvLines(_)
CsvLines(list) ==
    IF list = <<>> THEN <<>> ELSE CsvLine(RowFields(Head(list))) \o CsvLines(Tail(list))

\* The text write_csv leaves in the file: the header line, then one line per row.
write_csv(list) == CsvLine(CSV_COLUMNS) \o CsvLines(list)

\* csv.reader, dialect excel, fed line by line from a file opened with
\* newline="": EOL is the end-of-line event that follows the last character
\* of every line.
EOL == -1

CsvOk(st, field, record) == [ok |-> TRUE, st |-> st, field |-> field, record |-> record]

CsvError == [ok |-> FALSE, st |-> "START_RECORD", field |-> <<>>, record |-> <<>>]

\* parse_add_char: a field may not grow beyond the field limit.
CsvAdd(st, c, field, record) ==
    IF StrLen(field) + CharLen(c) > FieldLimit THEN CsvError
    ELSE CsvOk(st, Append(field, c), record)

\* parse_save_field.
CsvSave(st, field, record) == CsvOk(st, <<>>, Append(record, field))

CsvAfterEnd(c) == IF c = EOL THEN "START_RECORD" ELSE "EAT_CRNL"

\* parse_process_char: one character, or EOL, in state st.
CsvTrans(st, c, field, record) ==
    IF st = "START_RECORD" /\ c = EOL THEN CsvOk("START_RECORD", field, record)
    ELSE IF st = "START_RECORD" /\ c \in {LF, CR} THEN CsvOk("EAT_CRNL", field, record)
    ELSE IF st \in {"START_RECORD", "START_FIELD"} THEN
        IF c \in {LF, CR, EOL} THEN CsvSave(CsvAfterEnd(c), field, record)
        ELSE IF c = Quote THEN CsvOk("IN_QUOTED_FIELD", field, record)
        ELSE IF c = Comma THEN CsvSave("START_FIELD", field, record)
        ELSE CsvAdd("IN_FIELD", c, field, record)
    ELSE IF st = "IN_FIELD" THEN
        IF c \in {LF, CR, EOL} THEN CsvSave(CsvAfterEnd(c), field, record)
        ELSE IF c = Comma THEN CsvSave("START_FIELD", field, record)
        ELSE CsvAdd("IN_FIELD", c, field, record)
    ELSE IF st = "IN_QUOTED_FIELD" THEN
        IF c = EOL THEN CsvOk("IN_QUOTED_FIELD", field, record)
        ELSE IF c = Quote THEN CsvOk("QUOTE_IN_QUOTED_FIELD", field, record)
        ELSE CsvAdd("IN_QUOTED_FIELD", c, field, record)
    ELSE IF st = "QUOTE_IN_QUOTED_FIELD" THEN
        IF c = Quote THEN CsvAdd("IN_QUOTED_FIELD", c, field, record)
        ELSE IF c = Comma THEN CsvSave("START_FIELD", field, record)
        ELSE IF c \in {LF, CR, EOL} THEN CsvSave(CsvAfterEnd(c), field, record)
        ELSE CsvAdd("IN_FIELD", c, field, record)
    ELSE \* EAT_CRNL
        IF c \in {LF, CR} THEN CsvOk("EAT_CRNL", field, record)
        ELSE IF c = EOL THEN CsvOk("START_RECORD", field, record)
        ELSE CsvError

\* The character at k is the last of its line.
EndsLine(text, k) ==
    \/ k = Len(text)
    \/ text[k] = LF
    \/ text[k] = CR /\ text[k + 1] # LF

\* The reader between two characters: its state, the field and the record
\* under construction, and the records completed so far.
CsvReader(ok, st, field, record, out) ==
    [ok |-> ok, st |-> st, field |-> field, record |-> record, out |-> out]

\* The character at k, and the end-of-line event if it ends its line.  A
\* record is complete when the reader is back in START_RECORD; an empty
\* record (a blank line) is dropped, as csv.DictReader drops it.
CsvStep(r, text, k) ==
    IF ~r.ok THEN r
    ELSE LET a == CsvTrans(r.st, text[k], r.field, r.record)
             b == IF a.ok /\ EndsLine(text, k) THEN CsvTrans(a.st, EOL, a.field, a.record) ELSE a
         IN  IF ~b.ok THEN CsvReader(FALSE, "START_RECORD", <<>>, <<>>, <<>>)
             ELSE IF EndsLine(text, k) /\ b.st = "START_RECORD"
             THEN CsvReader(TRUE, "START_RECORD", <<>>, <<>>,
                            IF b.record = <<>> THEN r.out ELSE Append(r.out, b.record))
             ELSE CsvReader(TRUE, b.st, b.field, b.record, r.out)

\* The characters i..j in order, halved to keep the evaluation shallow.
RECURSIVE CsvFold(_, _, _, _)
CsvFold(text, i, j, r) ==
    IF i > j THEN r
    ELSE IF i = j THEN CsvStep(r, text, i)
    ELSE LET left == CsvFold(text, i, (i + j) \div 2, r)
         IN  IF left.ok THEN CsvFold(text, ((i + j) \div 2) + 1, j, left) ELSE left

\* list(csv.reader(handle)) without its empty records, or the csv.Error.  At
\* the end of the file a quoted field left open is saved as it stands.
csv_reader(text) ==
    LET r == CsvFold(text, 1, Len(text), CsvReader(TRUE, "START_RECORD", <<>>, <<>>, <<>>))
    IN  IF ~r.ok THEN [ok |-> FALSE, rows |-> <<>>]
        ELSE [ok |-> TRUE,
              rows |-> IF r.st = "IN_QUOTED_FIELD"
                       THEN Append(r.out, Append(r.record, r.field))
                       ELSE r.out]

\* json.loads on the text of an array of strings.  Escapes other than
\* \" \\ \n \r, and values other than strings, are written by no json.dumps
\* of explored rows; a text holding one is taken as not decodable.
JsonFail == [ok |-> FALSE, val |-> <<>>, next |-> 0]

RECURSIVE SkipSpace(_, _)
SkipSpace(text, k) ==
    IF k <= Len(text) /\ text[k] \in {Space, LF, CR} THEN SkipSpace(text, k + 1) ELSE k

\* The string whose opening quote precedes position k.
RECURSIVE JsonScanString(_, _, _)
JsonScanString(text, k, acc) ==
    IF k > Len(text) THEN JsonFail
    ELSE IF text[k] = Quote THEN [ok |-> TRUE, val |-> acc, next |-> k + 1]
    ELSE IF text[k] \in {LF, CR} THEN JsonFail
    ELSE IF text[k] = Backslash THEN
        IF k + 1 > Len(text) THEN JsonFail
        ELSE IF text[k + 1] \in {Quote, Backslash}
        THEN JsonScanString(text, k + 2, Append(acc, text[k + 1]))
        ELSE IF text[k + 1] = LetterN THEN JsonScanString(text, k + 2, Append(acc, LF))
        ELSE IF text[k + 1] = LetterR THEN JsonScanString(text, k + 2, Append(acc, CR))
        ELSE JsonFail
    ELSE JsonScanString(text, k + 1, Append(acc, text[k]))

\* The elements from position k on, a string being due there.
RECURSIVE JsonScanElements(_, _, _)
JsonScanElements(text, k, acc) ==
    IF k > Len(text) \/ text[k] # Quote THEN JsonFail
    ELSE LET str == JsonScanString(text, k + 1, <<>>)
             after == SkipSpace(text, str.next)
         IN  IF ~str.ok \/ after > Len(text) THEN JsonFail
             ELSE IF text[after] = RightBracket
             THEN [ok |-> TRUE, val |-> Append(acc, str.val), next |-> after + 1]
             ELSE IF text[after] = Comma
             THEN JsonScanElements(text, SkipSpace(text, after + 1), Append(acc, str.val))
             ELSE JsonFail

json_loads(text) ==
    LET start == SkipSpace(text, 1)
        first == SkipSpace(text, start + 1)
        parsed == IF first <= Len(text) /\ text[first] = RightBracket
                  THEN [ok |-> TRUE, val |-> <<>>, next |-> first + 1]
                  ELSE JsonScanElements(text, first, <<>>)
    IN  IF start > Len(text) \/ text[start] # LeftBracket THEN JsonFail
        ELSE IF parsed.ok /\ SkipSpace(text, parsed.next) > Len(text) THEN parsed
        ELSE JsonFail

\* A value a row dictionary holds under a key: a string, or None.
Some(t) == [none |-> FALSE, val |-> t]

None == [none |-> TRUE, val |-> <<>>]

\* _parse_remove_list, on the string held under "files_to_remove".
_parse_remove_list(raw_value) ==
    IF json_loads(raw_value).ok THEN json_loads(raw_value).val ELSE <<>>

RECURSIVE DigitsValue(_, _)
DigitsValue(t, acc) ==
    IF t = <<>> THEN acc ELSE DigitsValue(Tail(t), 10 * acc + (Head(t) - Zero))

IsDigits(t) == t # <<>> /\ \A k \in 1..Len(t) : t[k] \in Zero..(Zero + 9)

\* _parse_int: int(value), the default on TypeError (None) and ValueError.
_parse_int(value, default) ==
    IF value.none THEN default
    ELSE IF IsDigits(value.val) THEN DigitsValue(value.val, 0)
    ELSE IF value.val # <<>> /\ Head(value.val) = Minus /\ IsDigits(Tail(value.val))
    THEN -DigitsValue(Tail(value.val), 0)
    ELSE default

\* csv.DictReader: row.get(key, default) for a record under the field names.
HasKey(fieldnames, key) == \E p \in 1..Len(fieldnames) : fieldnames[p] = key

DictGet(fieldnames, record, key, default) ==
    IF ~HasKey(fieldnames, key) THEN default
    ELSE LET p == CHOOSE q \in 1..Len(fieldnames) :
                    /\ fieldnames[q] = key
                    /\ \A r \in (q + 1)..Len(fieldnames) : fieldnames[r] # key
         IN  IF p <= Len(record) THEN Some(record[p]) ELSE None

DuplicateVisualRow(index, file_to_keep, files_to_remove, remove_count) ==
    [index |-> index, file_to_keep |-> file_to_keep,
     files_to_remove |-> files_to_remove, remove_count |-> remove_count]

\* One pass of the loop of build_visual_rows_from_csv, ordinal counted from 1.
VisualRow(fieldnames, record, ordinal) ==
    LET files_to_remove ==
            _parse_remove_list(DictGet(fieldnames, record, COL_FILES_TO_REMOVE,
                                       Some(<<LeftBracket, RightBracket>>)).val)
        row_index == DictGet(fieldnames, record, COL_INDEX,
                             DictGet(fieldnames, record, COL_HASH, Some(<<>>)))
    IN  DuplicateVisualRow(_parse_int(row_index, ordinal),
                           DictGet(fieldnames, record, COL_FILE_TO_KEEP, Some(<<>>)).val,
                           files_to_remove,
                           _parse_int(DictGet(fieldnames, record, COL_COUNT, Some(<<>>)),
                                      Len(files_to_remove)))

Max(a, b) == IF a >= b THEN a ELSE b

Min(a, b) == IF a <= b THEN a ELSE b

\* What a reader of the CSV hands back when it raises: nothing.
Raised(exception) ==
    [raised |-> exception, rows |-> <<>>, total_rows |-> 0, shown_rows |-> 0]

\* The visual rows for what the reader returned, or the exception: csv.Error
\* from the reader, TypeError from json.loads(None) for a record that stops
\* before its files_to_remove field.
VisualRowsOf(read, top) ==
    LET fieldnames == IF read.rows = <<>> THEN <<>> ELSE Head(read.rows)
        records == IF read.rows = <<>> THEN <<>> ELSE Tail(read.rows)
        shown_rows == SubSeq(records, 1, Min(Len(records), Max(0, top)))
    IN  IF ~read.ok THEN Raised("csv.Error")
        ELSE IF \E k \in 1..Len(shown_rows) :
                    DictGet(fieldnames, shown_rows[k], COL_FILES_TO_REMOVE, Some(<<>>)).none
        THEN Raised("TypeError")
        ELSE [raised |-> "none",
              rows |-> [k \in 1..Len(shown_rows) |-> VisualRow(fieldnames, shown_rows[k], k)],
              total_rows |-> Len(records),
              shown_rows |-> Len(shown_rows)]

\* build_visual_rows_from_csv(csv_path, top)[0] for a file holding text.  The
\* file is read once: `read` is bound to the value of csv_reader(text).
build_visual_rows_from_csv(text, top) ==
    CHOOSE out \in {VisualRowsOf(read, top) : read \in {csv_reader(text)}} : TRUE

DuplicatePreviewRow(index, file_to_keep, remove_count, first_remove) ==
    [index |-> index, file_to_keep |-> file_to_keep,
     remove_count |-> remove_count, first_remove |-> first_remove]

\* preview_row_from_duplicate_row: the first path to remove, or "-".
preview_row_from_duplicate_row(row) ==
    DuplicatePreviewRow(row.index, row.file_to_keep, row.count,
                        IF row.files_to_remove # <<>> THEN row.files_to_remove[1]
                        ELSE <<Minus>>)

\* One turn of the loop of build_preview_rows_from_csv.
PreviewRow(fieldnames, record, ordinal) ==
    LET files_to_remove ==
            _parse_remove_list(DictGet(fieldnames, record, COL_FILES_TO_REMOVE,
                                       Some(<<LeftBracket, RightBracket>>)).val)
        row_index == DictGet(fieldnames, record, COL_INDEX,
                             DictGet(fieldnames, record, COL_HASH, Some(<<>>)))
    IN  preview_row_from_duplicate_row(
            DuplicateRow(_parse_int(row_index, ordinal),
                         DictGet(fieldnames, record, COL_FILE_TO_KEEP, Some(<<>>)).val,
                         files_to_remove,
                         _parse_int(DictGet(fieldnames, record, COL_COUNT, Some(<<>>)),
                                    Len(files_to_remove))))

\* The preview rows for what the reader returned, or the exception.
PreviewRowsOf(read, top) ==
    LET fieldnames == IF read.rows = <<>> THEN <<>> ELSE Head(read.rows)
        records == IF read.rows = <<>> THEN <<>> ELSE Tail(read.rows)
        shown_rows == SubSeq(records, 1, Min(Len(records), Max(0, top)))
    IN  IF ~read.ok THEN Raised("csv.Error")
        ELSE IF \E k \in 1..Len(shown_rows) :
                    DictGet(fieldnames, shown_rows[k], COL_FILES_TO_REMOVE, Some(<<>>)).none
        THEN Raised("TypeError")
        ELSE [raised |-> "none",
              rows |-> [k \in 1..Len(shown_rows) |-> PreviewRow(fieldnames, shown_rows[k], k)],
              total_rows |-> Len(records),
              shown_rows |-> Len(shown_rows)]

\* build_preview_rows_from_csv(csv_path, top) for a file holding text.
build_preview_rows_from_csv(text, top) ==
    CHOOSE out \in {PreviewRowsOf(read, top) : read \in {csv_reader(text)}} : TRUE

\* value[:n], where a cut inside a Run leaves that many letters "x".
RECURSIVE Take(_, _)
Take(value, n) ==
    IF n <= 0 \/ value = <<>> THEN <<>>
    ELSE IF Head(value) # Run THEN <<Head(value)>> \o Take(Tail(value), n - 1)
    ELSE IF n >= RunLength THEN <<Run>> \o Take(Tail(value), n - RunLength)
    ELSE [k \in 1..n |-> 120]

_clip(value, width) ==
    IF StrLen(value) <= width THEN value
    ELSE IF width <= 3 THEN Take(value, width)
    ELSE Take(value, width - 3) \o <<46, 46, 46>>

\* f"{text:<{width}}": text, filled with spaces up to width.
PadRight(text, width) ==
    text \o [k \in 1..Max(0, width - StrLen(text)) |-> Space]

\* The four cells of a table row, as build_pretty_table_from_csv reads them.
TableCells(fieldnames, record) ==
    <<DictGet(fieldnames, record, COL_INDEX,
              DictGet(fieldnames, record, COL_HASH, Some(<<>>))),
      DictGet(fieldnames, record, COL_FILE_TO_KEEP, None),
      DictGet(fieldnames, record, COL_FILES_TO_REMOVE, None),
      DictGet(fieldnames, record, COL_COUNT, None)>>

\* The largest of min(cap, len(cell c)) over the shown rows, at least floor.
ColumnWidth(cells, c, floor, cap) ==
    CHOOSE w \in floor..cap :
        /\ \A k \in 1..Len(cells) : w >= Min(cap, StrLen(cells[k][c]))
        /\ \/ w = floor
           \/ \E k \in 1..Len(cells) : w = Min(cap, StrLen(cells[k][c]))

format_row(values, widths) ==
    PadRight(_clip(values[1], widths[1]), widths[1]) \o <<Space, 124, Space>>
    \o PadRight(_clip(values[2], widths[2]), widths[2]) \o <<Space, 124, Space>>
    \o PadRight(_clip(values[3], widths[3]), widths[3]) \o <<Space, 124, Space>>
    \o PadRight(_clip(values[4], widths[4]), widths[4])

Dashes(width) == [k \in 1..width |-> Minus]

\* The lines of the table: header, separator, one line per shown row.
TableLines(cells) ==
    LET widths == <<ColumnWidth(cells, 1, 5, 8), ColumnWidth(cells, 2, 70, 100),
                    ColumnWidth(cells, 3, 90, 140), ColumnWidth(cells, 4, 6, 10)>>
        separator == Dashes(widths[1]) \o <<Minus, 43, Minus>>
                     \o Dashes(widths[2]) \o <<Minus, 43, Minus>>
                     \o Dashes(widths[3]) \o <<Minus, 43, Minus>>
                     \o Dashes(widths[4])
    IN  <<format_row(CSV_COLUMNS, widths), separator>>
        \o [k \in 1..Len(cells) |-> format_row(cells[k], widths)]

NO_DUPLICATE_ROWS ==
    <<40, 110, 111, 32, 100, 117, 112, 108, 105, 99, 97, 116, 101, 32, 114, 111, 119, 115, 41>>

\* The table for what the reader returned, its lines kept apart (the code
\* joins them with "\n"), or the exception: csv.Error from the reader,
\* KeyError for a file without one of the columns, TypeError from len(None)
\* for a shown record that stops before its last field.
TableOf(read, top) ==
    LET fieldnames == IF read.rows = <<>> THEN <<>> ELSE Head(read.rows)
        records == IF read.rows = <<>> THEN <<>> ELSE Tail(read.rows)
        shown_rows == SubSeq(records, 1, Min(Len(records), Max(0, top)))
        cells == [k \in 1..Len(shown_rows) |-> TableCells(fieldnames, shown_rows[k])]
    IN  IF ~read.ok THEN Raised("csv.Error")
        ELSE IF shown_rows = <<>>
        THEN [raised |-> "none", rows |-> <<NO_DUPLICATE_ROWS>>,
              total_rows |-> Len(records), shown_rows |-> 0]
        ELSE IF \E c \in {COL_FILE_TO_KEEP, COL_FILES_TO_REMOVE, COL_COUNT} :
                    ~HasKey(fieldnames, c)
        THEN Raised("KeyError")
        ELSE IF \E k \in 1..Len(cells), c \in 1..4 : cells[k][c].none
        THEN Raised("TypeError")
        ELSE [raised |-> "none",
              rows |-> TableLines([k \in 1..Len(cells) |->
                                      [c \in 1..4 |-> cells[k][c].val]]),
              total_rows |-> Len(records),
              shown_rows |-> Len(shown_rows)]

\* build_pretty_table_from_csv(csv_path, top) for a file holding text.
build_pretty_table_from_csv(text, top) ==
    CHOOSE out \in {TableOf(read, top) : read \in {csv_reader(text)}} : TRUE

\* _scan_one_media line 356, write_csv lines 243-254: the file is replaced.
WriteCsv ==
    /\ pc = "returned"
    /\ csv_file' = [written |-> TRUE, text |-> write_csv(returned[Len(returned)])]
    /\ pc' = "written"
    /\ UNCHANGED <<payload, error, total_found, summary, read_rows>>
    /\ UNCHANGED <<groups, mode, fs, gi, ii, existing, rows, returned, fsAtCall, probes, seen>>
    /\ UNCHANGED cli

TopValues == -1..2

\* What a reader handed back, with the reader and the `top` it was given.
ReadBack(reader, top, out) ==
    [reader |-> reader, top |-> top, rows |-> out.rows,
     total_rows |-> out.total_rows, shown_rows |-> out.shown_rows]

\* _run_viz line 483: the rows are read back from the file, up to `top`.
BuildVisualRowsFromCsv ==
    /\ pc = "written"
    /\ \E top \in TopValues :
          /\ build_visual_rows_from_csv(csv_file.text, top).raised = "none"
          /\ read_rows' = <<ReadBack("visual", top, build_visual_rows_from_csv(csv_file.text, top))>>
    /\ pc' = "read"
    /\ UNCHANGED <<payload, error, total_found, csv_file, summary>>
    /\ UNCHANGED <<groups, mode, fs, gi, ii, existing, rows, returned, fsAtCall, probes, seen>>
    /\ UNCHANGED cli

\* The read raises: nothing is returned.
BuildVisualRowsFromCsvRaises ==
    /\ pc = "written"
    /\ \E top \in TopValues :
          /\ build_visual_rows_from_csv(csv_file.text, top).raised # "none"
          /\ error' = [kind |-> build_visual_rows_from_csv(csv_file.text, top).raised,
                       what |-> "read", group |-> 0, item |-> 0]
          /\ read_rows' = <<ReadBack("visual", top, build_visual_rows_from_csv(csv_file.text, top))>>
    /\ pc' = "raised"
    /\ UNCHANGED <<payload, total_found, csv_file, summary>>
    /\ UNCHANGED <<groups, mode, fs, gi, ii, existing, rows, returned, fsAtCall, probes, seen>>
    /\ UNCHANGED cli

\* _print_result_block: the terminal preview reads the file, up to `top`.
BuildPreviewRowsFromCsv ==
    /\ pc = "written"
    /\ \E top \in TopValues :
          LET out == CHOOSE o \in {build_preview_rows_from_csv(csv_file.text, top)} : TRUE
          IN  /\ read_rows' = <<ReadBack("preview", top, out)>>
              /\ pc' = IF out.raised = "none" THEN "read" ELSE "raised"
              /\ error' = IF out.raised = "none" THEN error
                          ELSE [kind |-> out.raised, what |-> "read", group |-> 0, item |-> 0]
    /\ UNCHANGED <<payload, total_found, csv_file, summary>>
    /\ UNCHANGED <<groups, mode, fs, gi, ii, existing, rows, returned, fsAtCall, probes, seen>>
    /\ UNCHANGED cli

\* The plain-text table reads the file, up to `top`.
BuildPrettyTableFromCsv ==
    /\ pc = "written"
    /\ \E top \in TopValues :
          LET out == CHOOSE o \in {build_pretty_table_from_csv(csv_file.text, top)} : TRUE
          IN  /\ read_rows' = <<ReadBack("table", top, out)>>
              /\ pc' = IF out.raised = "none" THEN "read" ELSE "raised"
              /\ error' = IF out.raised = "none" THEN error
                          ELSE [kind |-> out.raised, what |-> "read", group |-> 0, item |-> 0]
    /\ UNCHANGED <<payload, total_found, csv_file, summary>>
    /\ UNCHANGED <<groups, mode, fs, gi, ii, existing, rows, returned, fsAtCall, probes, seen>>
    /\ UNCHANGED cli

ExpandedDuplicateRow(group_index, file_to_keep, remove_path, remove_ordinal, group_remove_count) ==
    [group_index |-> group_index, file_to_keep |-> file_to_keep,
     remove_path |-> remove_path, remove_ordinal |-> remove_ordinal,
     group_remove_count |-> group_remove_count]

\* The inner loop of build_expanded_rows: the expanded rows of one record.
ExpandedOfRecord(fieldnames, record, ordinal) ==
    LET group_index == _parse_int(DictGet(fieldnames, record, COL_INDEX,
                                          DictGet(fieldnames, record, COL_HASH, Some(<<>>))),
                                  ordinal)
        file_to_keep == DictGet(fieldnames, record, COL_FILE_TO_KEEP, Some(<<>>)).val
        files_to_remove ==
            _parse_remove_list(DictGet(fieldnames, record, COL_FILES_TO_REMOVE,
                                       Some(<<LeftBracket, RightBracket>>)).val)
        group_remove_count == _parse_int(DictGet(fieldnames, record, COL_COUNT, Some(<<>>)),
                                         Len(files_to_remove))
    IN  [remove_ordinal \in 1..Len(files_to_remove) |->
            ExpandedDuplicateRow(group_index, file_to_keep, files_to_remove[remove_ordinal],
                                 remove_ordinal, group_remove_count)]

\* The outer loop: the records from `ordinal` on, each appending its rows.
RECURSIVE ExpandedFrom(_, _, _)
ExpandedFrom(fieldnames, records, ordinal) ==
    IF ordinal > Len(records) THEN <<>>
    ELSE ExpandedOfRecord(fieldnames, records[ordinal], ordinal)
         \o ExpandedFrom(fieldnames, records, ordinal + 1)

\* The expanded rows for what the reader returned, or the exception:
\* csv.Error from the reader, TypeError from json.loads(None) for a record
\* that stops before its files_to_remove field.
ExpandedOf(read) ==
    LET fieldnames == IF read.rows = <<>> THEN <<>> ELSE Head(read.rows)
        records == IF read.rows = <<>> THEN <<>> ELSE Tail(read.rows)
    IN  IF ~read.ok THEN [raised |-> "csv.Error", rows |-> <<>>]
        ELSE IF \E k \in 1..Len(records) :
                    DictGet(fieldnames, records[k], COL_FILES_TO_REMOVE, Some(<<>>)).none
        THEN [raised |-> "TypeError", rows |-> <<>>]
        ELSE [raised |-> "none", rows |-> ExpandedFrom(fieldnames, records, 1)]

\* build_expanded_rows(csv_path, media_type) for a file holding text.
build_expanded_rows(text) ==
    CHOOSE out \in {ExpandedOf(read) : read \in {csv_reader(text)}} : TRUE

\* _run_analyze line 583: the expanded rows are built from the file.
BuildExpandedRows ==
    /\ pc = "written"
    /\ LET out == CHOOSE o \in {build_expanded_rows(csv_file.text)} : TRUE
       IN  /\ read_rows' = <<[reader |-> "expanded", rows |-> out.rows]>>
           /\ pc' = IF out.raised = "none" THEN "read" ELSE "raised"
           /\ error' = IF out.raised = "none" THEN error
                       ELSE [kind |-> out.raised, what |-> "read", group |-> 0, item |-> 0]
    /\ UNCHANGED <<payload, total_found, csv_file, summary>>
    /\ UNCHANGED <<groups, mode, fs, gi, ii, existing, rows, returned, fsAtCall, probes, seen>>
    /\ UNCHANGED cli

\* Rows of any content: texts with the characters the two encodings treat
\* specially, and texts as long as the reader's field limit.
KeepTexts ==
    {<<>>, <<97>>, <<97, Quote, Comma>>, <<CR, LF>>, <<Run, Run>>, <<Run, Run, 97>>}

RemoveLists ==
    {<<>>, <<<<97>>>>, <<<<Quote>>, <<Backslash, Comma>>>>,
     <<<<Backslash, LetterN>>, <<LF>>>>, <<<<Run>>, <<Run>>>>}

\* Rows as build_rows numbers them, and rows with other numbers.
AnyRows ==
    {DuplicateRow(1, k, r, Len(r)) : k \in KeepTexts, r \in RemoveLists}
    \cup {DuplicateRow(12, <<97>>, r, -3) : r \in RemoveLists}

\* The rows that follow another row in the explored lists.
LastRows ==
    {DuplicateRow(2, <<97>>, <<>>, 0),
     DuplicateRow(2, <<97, Quote, Comma>>, <<<<Backslash, LetterN>>, <<LF>>>>, 2),
     DuplicateRow(12, <<97>>, <<<<97>>>>, -3)}

\* The explored row lists: none, any one row, any row followed by a last row.
RowLists == {<<>>} \cup {<<r>> : r \in AnyRows} \cup {<<r, q>> : r \in AnyRows, q \in LastRows}

\* write_csv on any list of rows, then one read of the file.
InitCsv ==
    /\ StageIdle
    /\ CliIdle
    /\ returned \in {<<list>> : list \in RowLists}
    /\ pc = "returned"
    /\ groups = <<>>
    /\ mode = "test"
    /\ fs = [p \in Paths |-> "missing"]
    /\ gi = 1
    /\ ii = 1
    /\ existing = <<>>
    /\ rows = <<>>
    /\ fsAtCall = <<>>
    /\ probes = 0
    /\ seen = <<>>

NextCsv ==
    \/ WriteCsv
    \/ BuildVisualRowsFromCsv
    \/ BuildVisualRowsFromCsvRaises

SpecCsv == InitCsv /\ [][NextCsv]_vars

\* write_csv on any list of rows, then one read by any of the three readers.
NextRead ==
    \/ WriteCsv
    \/ BuildVisualRowsFromCsv
    \/ BuildVisualRowsFromCsvRaises
    \/ BuildPreviewRowsFromCsv
    \/ BuildPrettyTableFromCsv

SpecRead == InitCsv /\ [][NextRead]_vars

\* write_csv on any list of rows, then build_expanded_rows on the file.
NextExpand ==
    \/ WriteCsv
    \/ BuildExpandedRows

SpecExpand == InitCsv /\ [][NextExpand]_vars

----------------------------------------------------------------------------
(* Properties of the CSV artifact.                                         *)

Written == returned[Len(returned)]

\* The four fields of a row that was read are those of the row written.
SameFields(read, written) ==
    /\ read.index = written.index
    /\ read.file_to_keep = written.file_to_keep
    /\ read.files_to_remove = written.files_to_remove
    /\ read.remove_count = written.count

\* C20: CSV round trip: once any list of rows has been written by write_csv
\* and the file has been read by build_visual_rows_from_csv with top at least
\* the number of rows, the read has returned as many rows as were written,
\* in the order written, each with the same index, file_to_keep,
\* files_to_remove and count.
C20_RoundTrip ==
    (/\ csv_file.written
     /\ read_rows # <<>>
     /\ read_rows[1].top >= Len(Written)) =>
        /\ pc = "read"
        /\ Len(read_rows[1].rows) = Len(Written)
        /\ \A k \in 1..Len(Written) : SameFields(read_rows[1].rows[k], Written[k])

\* The same, for rows whose fields fit the reader's field limit.
FitsFieldLimit(row) ==
    /\ StrLen(row.file_to_keep) <= FieldLimit
    /\ StrLen(json_dumps(row.files_to_remove)) <= FieldLimit

RoundTripWithinFieldLimit ==
    (/\ csv_file.written
     /\ read_rows # <<>>
     /\ read_rows[1].top >= Len(Written)
     /\ \A k \in 1..Len(Written) : FitsFieldLimit(Written[k])) =>
        /\ pc = "read"
        /\ Len(read_rows[1].rows) = Len(Written)
        /\ \A k \in 1..Len(Written) : SameFields(read_rows[1].rows[k], Written[k])

\* The number of paths to remove in the first k rows of a list.
RECURSIVE RemovesBefore(_, _)
RemovesBefore(list, k) ==
    IF k = 0 THEN 0 ELSE RemovesBefore(list, k - 1) + Len(list[k].files_to_remove)

\* The expanded rows of the k-th row of the file are there, after those of
\* the rows before it, one per path to remove, in list order, numbered from 1.
ExpandsRow(expanded, list, k) ==
    /\ Len(expanded) >= RemovesBefore(list, k)
    /\ \A j \in 1..Len(list[k].files_to_remove) :
          expanded[RemovesBefore(list, k - 1) + j] =
              ExpandedDuplicateRow(list[k].index, list[k].file_to_keep,
                                   list[k].files_to_remove[j], j, list[k].count)

\* C23: build_expanded_rows: once any list of rows has been written and
\* build_expanded_rows has been called on the file, the call has returned,
\* for each row of the file in file order, one expanded row per path of its
\* files_to_remove, in list order, with remove_ordinal 1..k and the row's
\* index, file_to_keep and count; their number is the sum of the lengths of
\* the remove lists (none for a row without paths to remove or an empty file).
C23_OneExpandedRowPerRemove ==
    (csv_file.written /\ read_rows # <<>>) =>
        /\ pc = "read"
        /\ Len(read_rows[1].rows) = RemovesBefore(Written, Len(Written))
        /\ \A k \in 1..Len(Written) : ExpandsRow(read_rows[1].rows, Written, k)

\* The same, for files whose fields fit the reader's field limit.
OneExpandedRowPerRemoveWithinFieldLimit ==
    (/\ csv_file.written
     /\ read_rows # <<>>
     /\ \A k \in 1..Len(Written) : FitsFieldLimit(Written[k])) =>
        /\ pc = "read"
        /\ Len(read_rows[1].rows) = RemovesBefore(Written, Len(Written))
        /\ \A k \in 1..Len(Written) : ExpandsRow(read_rows[1].rows, Written, k)

\* The k-th row a reader returned or rendered is the k-th row of the file:
\* a visual or preview row carries its index, file_to_keep and count (and its
\* remove list or the first path of it), a table line is its four CSV fields
\* clipped and padded to the widths of the lines above it.
ShowsRow(read, k, written) ==
    LET row == read.rows[k] IN
    IF read.reader = "visual" THEN SameFields(row, written)
    ELSE IF read.reader = "preview"
    THEN /\ row.index = written.index
         /\ row.file_to_keep = written.file_to_keep
         /\ row.remove_count = written.count
         /\ row.first_remove = IF written.files_to_remove = <<>> THEN <<Minus>>
                               ELSE written.files_to_remove[1]
    ELSE LET line == read.rows[k + 2]
             dashes == read.rows[2]
             w1 == CHOOSE w \in 1..(Len(dashes) - 2) :
                       /\ dashes[w + 2] = 43
                       /\ \A v \in 1..(w - 1) : dashes[v + 2] # 43
         IN  /\ SubSeq(line, w1 + 1, w1 + 3) = <<Space, 124, Space>>
             /\ SubSeq(line, 1, w1) = PadRight(IntStr(written.index), w1)

Shown(read) == Min(read.total_rows, Max(0, read.top))

\* C21: the three readers of the CSV: once any list of rows has been written
\* and build_preview_rows_from_csv, build_visual_rows_from_csv or
\* build_pretty_table_from_csv has been called on the file with any top, the
\* call has returned total_rows equal to the number of rows in the file and
\* shown_rows = min(total_rows, max(0, top)), and what it returned or
\* rendered are the first shown_rows rows of the file, in file order.
C21_ReadersReportFirstRows ==
    (csv_file.written /\ read_rows # <<>>) =>
        LET read == read_rows[1] IN
        /\ pc = "read"
        /\ read.total_rows = Len(Written)
        /\ read.shown_rows = Shown(read)
        /\ Len(read.rows) = IF read.reader # "table" THEN read.shown_rows
                            ELSE IF read.shown_rows = 0 THEN 1
                            ELSE read.shown_rows + 2
        /\ \A k \in 1..read.shown_rows : ShowsRow(read, k, Written[k])

\* The same, for files whose fields fit the reader's field limit.
ReadersReportFirstRowsWithinFieldLimit ==
    (/\ csv_file.written
     /\ read_rows # <<>>
     /\ \A k \in 1..Len(Written) : FitsFieldLimit(Written[k])) =>
        LET read == read_rows[1] IN
        /\ pc = "read"
        /\ read.total_rows = Len(Written)
        /\ read.shown_rows = Shown(read)
        /\ Len(read.rows) = IF read.reader # "table" THEN read.shown_rows
                            ELSE IF read.shown_rows = 0 THEN 1
                            ELSE read.shown_rows + 2
        /\ \A k \in 1..read.shown_rows : ShowsRow(read, k, Written[k])

----------------------------------------------------------------------------
(* The report stage of _scan_one_media, lines 354-358: load the scanner's   *)
(* JSON, build the rows, write the CSV, build the summary.                  *)

RECURSIVE SumOfCounts(_)
SumOfCounts(list) == IF list = <<>> THEN 0 ELSE Head(list).count + SumOfCounts(Tail(list))

MediaSummary(total, duplicate_groups, duplicates_to_remove, after_remove_estimate) ==
    [total_found |-> total, duplicate_groups |-> duplicate_groups,
     duplicates_to_remove |-> duplicates_to_remove,
     after_remove_estimate |-> after_remove_estimate]

\* The estimate without its floor.
build_summary_unclamped(total, duplicate_groups, list) ==
    MediaSummary(total, duplicate_groups, SumOfCounts(list), total - SumOfCounts(list))

build_summary(total, duplicate_groups, list) ==
    MediaSummary(total, duplicate_groups, SumOfCounts(list),
                 Max(0, total - SumOfCounts(list)))

\* Line 358: build_summary(total_found=total_found, duplicate_groups=len(groups), rows=rows).
BuildSummary ==
    /\ pc = "written"
    /\ summary' = <<build_summary(total_found, Len(groups), returned[Len(returned)])>>
    /\ pc' = "scanned"
    /\ UNCHANGED <<payload, error, total_found, csv_file, read_rows>>
    /\ UNCHANGED <<groups, mode, fs, gi, ii, existing, rows, returned, fsAtCall, probes, seen>>
    /\ UNCHANGED cli

\* The documents of the report stage: groups of up to two elements, an
\* element being an item with a path or a value that is no object.
ReportItems == {OtherItem} \cup {JsonObject(StrPath(p), IntVal(0), IntVal(0)) : p \in RowPaths}

ReportGroups == {JsonArray(g) : g \in UNION {[1..k -> ReportItems] : k \in RowGroupLens}}

ReportDocuments == {JsonOther} \cup {JsonArray(d) : d \in SeqsUpTo(ReportGroups, MaxGroups)}

TotalsFound == 0..3

\* The scanner has written its JSON and count_media_files has counted.
InitReport ==
    /\ payload \in ReportDocuments
    /\ total_found \in TotalsFound
    /\ error = NoError
    /\ csv_file = NoFile
    /\ summary = <<>>
    /\ read_rows = <<>>
    /\ CliIdle
    /\ groups = <<>>
    /\ \/ /\ mode = "test"
          /\ fs = [p \in Paths |-> "missing"]
       \/ /\ mode = "execute"
          /\ fs \in FileSystemsFor(load_duplicate_groups(payload).groups)
    /\ pc = "load"
    /\ gi = 1
    /\ ii = 1
    /\ existing = <<>>
    /\ rows = <<>>
    /\ returned = <<>>
    /\ fsAtCall = <<>>
    /\ probes = 0
    /\ seen = <<>>

NextReport ==
    \/ LoadDuplicateGroups
    \/ LoadRaises
    \/ BuildRowsCall
    \/ SkipEmptyGroup
    \/ ProjectGroup
    \/ ResolveEnter
    \/ Probe
    \/ ResolveDecide
    \/ SortAndReturn
    \/ WriteCsv
    \/ BuildSummary

SpecReport == InitReport /\ [][NextReport]_vars

----------------------------------------------------------------------------
(* Properties of the summary.                                              *)

\* C12: the duplicate_groups of the summary built for a scan is the number
\* of non-empty groups of the loaded payload, which is the number of rows
\* build_rows returned for it.
C12_DuplicateGroupsCountsNonEmpty ==
    summary # <<>> =>
        /\ summary[1].duplicate_groups = Cardinality(NonEmptyGroups)
        /\ summary[1].duplicate_groups = Len(returned[1])

RowCounts == [k \in 1..Len(returned[1]) |-> returned[1][k].count]

\* The sum of a list of integers, taken from its last element.
RECURSIVE SumFromEnd(_)
SumFromEnd(ints) ==
    IF ints = <<>> THEN 0 ELSE ints[Len(ints)] + SumFromEnd(SubSeq(ints, 1, Len(ints) - 1))

\* C13: the summary built from rows has duplicates_to_remove equal to the sum
\* of their counts, and after_remove_estimate equal to total_found minus that
\* sum where this is not negative and to 0 where it is; it is never negative.
C13_SummaryArithmetic ==
    summary # <<>> =>
        /\ summary[1].total_found = total_found
        /\ summary[1].duplicates_to_remove = SumFromEnd(RowCounts)
        /\ summary[1].after_remove_estimate >= 0
        /\ total_found >= SumFromEnd(RowCounts) =>
              summary[1].after_remove_estimate = total_found - SumFromEnd(RowCounts)
        /\ total_found < SumFromEnd(RowCounts) => summary[1].after_remove_estimate = 0

C13_Witness ==
    /\ summary # <<>>
    /\ Len(returned[1]) = 2
    /\ summary[1].duplicates_to_remove = 2
    /\ total_found = 1
    /\ summary[1].after_remove_estimate = 0

----------------------------------------------------------------------------
(* build_rows on items whose size and modified_date are any JSON value.     *)

\* JSON values as Python holds them: true is the bool True, 1.5 a float
\* (three halves), "5" a str; Infinity and NaN are floats.
BoolTrue == [tag |-> "bool", val |-> 1]

OneAndAHalf == [tag |-> "float", val |-> 3]

SomeString == [tag |-> "str", val |-> 0]

Infinite == [tag |-> "inf", val |-> 0]

NotANumber == [tag |-> "nan", val |-> 0]

AnySizes == {Absent, IntVal(1), BoolTrue, OneAndAHalf, SomeString, Infinite}

AnyDates == {Absent, IntVal(1), BoolTrue, NotANumber}

AnyValueItems == [path : RowPaths, size : AnySizes, modified_date : AnyDates]

\* One call on a single group of up to two such items.
InitCoerce ==
    /\ mode \in {"test", "execute"}
    /\ groups \in {<<g>> : g \in UNION {[1..k -> AnyValueItems] : k \in RowGroupLens}}
    /\ InitCommon

NextCoerce ==
    \/ BuildRowsCall
    \/ SkipEmptyGroup
    \/ ProjectGroup
    \/ ProjectGroupRaises
    \/ ResolveEnter
    \/ Probe
    \/ ResolveDecide
    \/ ResolveEnterRaises
    \/ SortAndReturn

SpecCoerce == InitCoerce /\ [][NextCoerce]_vars

\* The number the sort key is said to use: an integer as it is, a float
\* converted to an integer, 0 for everything else.
SaidInt(v) ==
    IF v.tag = "int" THEN v.val
    ELSE IF v.tag = "float" THEN IntOfHalves(v.val)
    ELSE 0

AsSaid(group) ==
    [k \in 1..Len(group) |->
        [path |-> group[k].path, size |-> IntVal(SaidInt(group[k].size)),
         modified_date |-> IntVal(SaidInt(group[k].modified_date))]]

SaidDecision ==
    IF mode = "test" THEN _project_group_aeb(AsSaid(TheGroup))
    ELSE ResolveDecision(AsSaid(TheGroup),
                         Filter(PathsOf(TheGroup), {p \in Paths : fs[p] = "exists"}))

\* C17: no value of size or modified_date makes build_rows fail, and the row
\* built for a group is the one the decision yields when an absent value and
\* a value that is neither an integer nor a float (a string, a boolean, ...)
\* count as 0, an integer as itself and a float as its integer part.
C17_NonNumbersCountAsZero ==
    /\ pc # "raised"
    /\ OneRowReturned =>
          /\ TheRow.file_to_keep = SaidDecision.keep
          /\ TheRow.files_to_remove = SaidDecision.remove

----------------------------------------------------------------------------
(* Reconciled calls on a filesystem whose probes may fail.                  *)

\* The filesystems that differ on the paths of gs, a probe of such a path
\* answering, or failing with an OSError (permission denied, ...).
FailingFileSystemsFor(gs) ==
    {f \in [Paths -> {"exists", "missing", "oserror"}] :
        \A p \in Paths : f[p] # "missing" =>
            \E g \in 1..Len(gs) : \E i \in 1..Len(gs[g]) : _path_value(gs[g][i]) = p}

InitProbe ==
    /\ mode = "execute"
    /\ groups \in SeqsUpTo(RowGroups, MaxGroups)
    /\ StageIdle
    /\ CliIdle
    /\ fs \in FailingFileSystemsFor(groups)
    /\ pc = "idle"
    /\ gi = 1
    /\ ii = 1
    /\ existing = <<>>
    /\ rows = <<>>
    /\ returned = <<>>
    /\ fsAtCall = <<>>
    /\ probes = 0
    /\ seen = <<>>

NextProbe ==
    \/ BuildRowsCall
    \/ SkipEmptyGroup
    \/ ResolveEnter
    \/ Probe
    \/ ResolveDecide
    \/ SortAndReturn

SpecProbe == InitProbe /\ [][NextProbe]_vars

\* The items of group g whose file is there, and those whose file is not:
\* a probe that fails counts as a file that is not there.
There(g) == {i \in 1..Len(groups[g]) : fs[groups[g][i].path] = "exists"}

Gone(g) == {i \in 1..Len(groups[g]) : fs[groups[g][i].path] \in {"missing", "oserror"}}

RECURSIVE TotalItems(_)
TotalItems(gs) == IF gs = <<>> THEN 0 ELSE Len(Head(gs)) + TotalItems(Tail(gs))

\* The row of group g is among the rows returned: the single survivor kept
\* and the others listed, or else the projected decision.
RowOfGroupReturned(g) ==
    \E k \in 1..Len(returned[1]) :
        IF Cardinality(There(g)) = 1 /\ Gone(g) # {}
        THEN /\ \E i \in There(g) : returned[1][k].file_to_keep = groups[g][i].path
             /\ returned[1][k].count = Cardinality(Gone(g))
             /\ Ascending(returned[1][k].files_to_remove)
             /\ \A i \in Gone(g) : InSeq(groups[g][i].path, returned[1][k].files_to_remove)
        ELSE /\ returned[1][k].file_to_keep = _project_group_aeb(groups[g]).keep
             /\ returned[1][k].files_to_remove = _project_group_aeb(groups[g]).remove

\* C18: in reconciled mode a probe that fails with an OS error does not make
\* build_rows fail, every item of every group is still probed, and the item
\* counts as disappeared: the row of each group is decided as if the file
\* were missing.
C18_ProbeErrorIsNotExisting ==
    /\ pc # "raised"
    /\ pc = "returned" =>
          /\ probes = TotalItems(groups)
          /\ Len(returned[1]) = Cardinality(NonEmptyGroups)
          /\ \A g \in NonEmptyGroups : RowOfGroupReturned(g)

\* A group of two whose first probe fails and whose second file is there,
\* followed by another group.
C18_Witness ==
    /\ pc = "returned"
    /\ Len(groups) = 2
    /\ Len(groups[1]) = 2
    /\ fs[groups[1][1].path] = "oserror"
    /\ fs[groups[1][2].path] = "exists"
    /\ groups[2] # <<>>
    /\ \E k \in 1..2 :
          /\ returned[1][k].file_to_keep = groups[1][2].path
          /\ returned[1][k].files_to_remove = <<groups[1][1].path>>

----------------------------------------------------------------------------
(* build_rows called on a list of groups and on the same groups reordered.  *)

\* Items that differ in their path only, over all paths.
PathItems == [path : Paths, size : {IntVal(0)}, modified_date : {IntVal(0)}]

PathGroups == UNION {[1..k -> PathItems] : k \in RowGroupLens}

\* The lists holding the groups of gs in another order.
Reordered(gs) ==
    {[k \in 1..Len(gs) |-> gs[perm[k]]] : perm \in Permutations(Len(gs))} \ {gs}

InitPerm ==
    /\ mode \in {"test", "execute"}
    /\ groups \in SeqsUpTo(PathGroups, MaxGroups)
    /\ InitCommon

\* A second call, same mode and filesystem, on the groups in another order.
BuildRowsCallReordered ==
    /\ pc = "returned"
    /\ Len(returned) < 2
    /\ groups' \in Reordered(groups)
    /\ pc' = "loop"
    /\ gi' = 1
    /\ rows' = <<>>
    /\ fsAtCall' = Append(fsAtCall, fs)
    /\ UNCHANGED <<mode, fs, ii, existing, returned, probes, seen>>
    /\ UNCHANGED <<stage, cli>>

NextPerm ==
    \/ BuildRowsCall
    \/ SkipEmptyGroup
    \/ ProjectGroup
    \/ ResolveEnter
    \/ Probe
    \/ ResolveDecide
    \/ SortAndReturn
    \/ BuildRowsCallReordered

SpecPerm == InitPerm /\ [][NextPerm]_vars

\* C19: the output of build_rows does not depend on the order of the groups:
\* the call on the same groups in another order, in the same mode and on the
\* same filesystem, has returned the same rows in the same order with the
\* same indices.
C19_GroupOrderIndependent ==
    Len(returned) = 2 => returned[1] = returned[2]

\* Rows that differ in their count or in their kept path come out in the
\* same order whatever the order of the groups.
SameUpToTies ==
    (/\ Len(returned) = 2
     /\ \A k, l \in 1..Len(returned[1]) :
            k # l => \/ returned[1][k].count # returned[1][l].count
                     \/ returned[1][k].file_to_keep # returned[1][l].file_to_keep)
        => returned[1] = returned[2]

----------------------------------------------------------------------------
(* main: the command line entry point (cli.py).                            *)
(*                                                                         *)
(* main checks the machine, selects the media and hands each one to        *)
(* _scan_one_media, directly (viz) or through _run_one_media (test,        *)
(* execute, analyze).  _scan_one_media calls build_czkawka_command with    *)
(* the keywords executable, media, target_dir, pretty_json_path, dry_run,  *)
(* image_similarity, hash_size and video_tolerance; build_czkawka_command  *)
(* also requires the keyword-only hash_alg and image_filter, so the call   *)
(* raises TypeError before the command list exists.  main catches          *)
(* RuntimeError and ValueError only.                                       *)

Commands == {"test", "execute", "analyze", "viz"}

MediaChoices == {"both", "images", "videos"}

_selected_media(m) == IF m = "both" THEN <<"images", "videos">> ELSE <<m>>

\* A command list: only whether it ends with "--dry-run" is kept.
build_czkawka_command(dry_run) == [dry_run |-> dry_run]

\* The keywords a call of build_czkawka_command must give, and those the
\* call in _scan_one_media gives.
RequiredKeywords ==
    {"executable", "media", "target_dir", "pretty_json_path", "dry_run",
     "image_similarity", "hash_size", "hash_alg", "image_filter", "video_tolerance"}

GivenKeywords ==
    {"executable", "media", "target_dir", "pretty_json_path", "dry_run",
     "image_similarity", "hash_size", "video_tolerance"}

\* The arguments with which a command reaches _scan_one_media.
ScanArguments(cmd) ==
    IF cmd = "viz"
    THEN [dry_run |-> TRUE, report_mode |-> "test"]
    ELSE [dry_run |-> cmd # "execute",
          report_mode |-> IF cmd = "execute" THEN "execute" ELSE "test"]

\* czkawka.py line 10.
SUCCESS_CODES == {0, 11}

\* run_czkawka(command), for the exit code the scanner gives: the completed
\* process, or RuntimeError for a code outside SUCCESS_CODES.
run_czkawka(returncode) ==
    IF returncode \notin SUCCESS_CODES
    THEN [raised |-> "RuntimeError", returncode |-> <<>>]
    ELSE [raised |-> "none", returncode |-> <<returncode>>]

\* The exit codes explored for the scanner and for the DuckDB shell.
ScannerCodes == {0, 1, 11}

SessionCodes == {0, 3}

ReturnCode(code) == [done |-> TRUE, code |-> <<code>>, raised |-> "none"]

Uncaught(exception) == [done |-> TRUE, code |-> <<>>, raised |-> exception]

\* ensure_czkawka_cli or the target directory check raises RuntimeError.
MainRaises ==
    /\ pc = "main"
    /\ ~env.czkawka \/ ~env.target_dir
    /\ exit' = ReturnCode(1)
    /\ pc' = "done"
    /\ UNCHANGED <<command, media, media_targets, env, scans, out_dir, runs>>
    /\ UNCHANGED <<groups, mode, fs, gi, ii, existing, rows, returned, fsAtCall, probes, seen>>
    /\ UNCHANGED stage

\* The checks pass; the media are selected.
MainSelectsMedia ==
    /\ pc = "main"
    /\ env.czkawka
    /\ env.target_dir
    /\ media_targets' = _selected_media(media)
    /\ pc' = "dispatch"
    /\ UNCHANGED <<command, media, env, scans, exit, out_dir, runs>>
    /\ UNCHANGED <<groups, mode, fs, gi, ii, existing, rows, returned, fsAtCall, probes, seen>>
    /\ UNCHANGED stage

\* _run_analyze: ensure_duckdb_cli raises RuntimeError before any scan.
RunAnalyzeRaises ==
    /\ pc = "dispatch"
    /\ command = "analyze"
    /\ ~env.duckdb
    /\ exit' = ReturnCode(1)
    /\ pc' = "done"
    /\ UNCHANGED <<command, media, media_targets, env, scans, out_dir, runs>>
    /\ UNCHANGED <<groups, mode, fs, gi, ii, existing, rows, returned, fsAtCall, probes, seen>>
    /\ UNCHANGED stage

\* _scan_one_media for the next media: the files are counted, the artifact
\* paths are built, and the call of build_czkawka_command lacks required
\* keywords: TypeError, which main lets through.
ScanOneMediaRaises ==
    /\ pc = "dispatch"
    /\ command = "analyze" => env.duckdb
    /\ Len(scans) < Len(media_targets)
    /\ RequiredKeywords \ GivenKeywords # {}
    /\ scans' = Append(scans, [media |-> media_targets[Len(scans) + 1],
                               dry_run |-> ScanArguments(command).dry_run,
                               report_mode |-> ScanArguments(command).report_mode,
                               invoked |-> <<>>])
    /\ error' = [kind |-> "TypeError", what |-> "keywords", group |-> 0, item |-> 0]
    /\ exit' = Uncaught("TypeError")
    /\ pc' = "done"
    /\ UNCHANGED <<command, media, media_targets, env, out_dir, runs>>
    /\ UNCHANGED <<groups, mode, fs, gi, ii, existing, rows, returned, fsAtCall, probes, seen>>
    /\ UNCHANGED <<payload, total_found, csv_file, summary, read_rows>>

\* What the scanner would leave at json_path: documents of at most one group.
MainDocuments == {JsonOther} \cup {JsonArray(d) : d \in SeqsUpTo(ReportGroups, 1)}

InitMain ==
    /\ command \in Commands
    /\ media \in MediaChoices
    /\ media_targets = <<>>
    /\ env \in [czkawka : BOOLEAN, duckdb : BOOLEAN, target_dir : BOOLEAN,
                scanner_code : ScannerCodes, session_code : SessionCodes]
    /\ scans = <<>>
    /\ exit = Running
    /\ out_dir = {}
    /\ runs = <<>>
    /\ payload \in MainDocuments
    /\ error = NoError
    /\ total_found = 0
    /\ csv_file = NoFile
    /\ summary = <<>>
    /\ read_rows = <<>>
    /\ groups = <<>>
    /\ mode = "test"
    /\ fs = [p \in Paths |-> "missing"]
    /\ pc = "main"
    /\ gi = 1
    /\ ii = 1
    /\ existing = <<>>
    /\ rows = <<>>
    /\ returned = <<>>
    /\ fsAtCall = <<>>
    /\ probes = 0
    /\ seen = <<>>

NextMain ==
    \/ MainRaises
    \/ MainSelectsMedia
    \/ RunAnalyzeRaises
    \/ ScanOneMediaRaises

SpecMain == InitMain /\ [][NextMain]_vars

\* The machine offers what the command needs.
Healthy == env.czkawka /\ env.target_dir /\ (command = "analyze" => env.duckdb)

\* Every call of _scan_one_media asks for a dry run unless the command is
\* execute, and for reconciled rows exactly when it asks for no dry run.
ScanCallsFollowCommand ==
    \A k \in 1..Len(scans) :
        /\ scans[k].dry_run <=> command # "execute"
        /\ scans[k].report_mode = (IF scans[k].dry_run THEN "test" ELSE "execute")

\* C11: when main has ended on a machine that offers what the command needs,
\* the scanner has been invoked for every selected media, with --dry-run for
\* test, analyze and viz and without it only for execute, and the rows of a
\* media have been built in execute mode exactly if its scanner ran without
\* --dry-run, in test mode otherwise.
C11_ScannerInvokedPerCommand ==
    (exit.done /\ Healthy) =>
        /\ Len(scans) = Len(_selected_media(media))
        /\ \A k \in 1..Len(scans) :
              /\ scans[k].invoked = <<build_czkawka_command(command # "execute")>>
              /\ scans[k].report_mode =
                    (IF scans[k].invoked[1].dry_run THEN "test" ELSE "execute")

\* C16: when main has ended on a machine that offers what the command needs
\* and the document the scanner leaves is defective, build_rows has not been
\* called, no CSV file has been written, and main has returned exit code 1.
C16_DefectivePayloadReturnsOne ==
    (exit.done /\ Healthy /\ Defective) =>
        /\ returned = <<>>
        /\ rows = <<>>
        /\ ~csv_file.written
        /\ exit = ReturnCode(1)

\* The scanner would exit with a success code and leave a well-formed report.
ScanWouldSucceed == run_czkawka(env.scanner_code).raised = "none" /\ ~Defective

\* C22: no reader has been called on a CSV that write_csv has not written,
\* and when main has ended on a machine that offers what the command needs,
\* with a scanner that succeeds, every media scan main made has had its CSV
\* written by write_csv.
C22_CsvWrittenBeforeRead ==
    /\ read_rows # <<>> => csv_file.written
    /\ (exit.done /\ Healthy /\ ScanWouldSucceed) =>
          /\ scans # <<>>
          /\ \A k \in 1..Len(scans) : scans[k].invoked # <<>> /\ csv_file.written

\* Analyze without DuckDB: main has returned 1 and no scan has been made.
AnalyzeWithoutDuckdbScansNothing ==
    (/\ exit.done
     /\ command = "analyze"
     /\ env.czkawka
     /\ env.target_dir
     /\ ~env.duckdb) => (exit = ReturnCode(1) /\ scans = <<>>)

\* C24: when main has ended for analyze on a machine with the scanner and
\* the target directory: without DuckDB it has returned 1 and the scanner
\* has never been invoked; with DuckDB and a scanner that succeeds, every
\* selected media has been scanned with --dry-run and main has returned
\* the exit code of the DuckDB session.
C24_AnalyzeScansThenLaunches ==
    (exit.done /\ command = "analyze" /\ env.czkawka /\ env.target_dir) =>
        IF ~env.duckdb
        THEN exit = ReturnCode(1) /\ scans = <<>>
        ELSE ScanWouldSucceed =>
                /\ Len(scans) = Len(_selected_media(media))
                /\ \A k \in 1..Len(scans) :
                      scans[k].invoked = <<build_czkawka_command(TRUE)>>
                /\ exit = ReturnCode(env.session_code)

\* C26: when main has ended on a machine that offers what the command needs
\* and the scanner exits with a code other than 0 and 11, the scanner has
\* been invoked once, no report has been loaded, no rows have been built,
\* no CSV has been written and main has returned 1; when it exits with 0 or
\* 11 and leaves a well-formed report, the CSV has been written.
C26_ScannerFailureReturnsOne ==
    (exit.done /\ Healthy) =>
        IF run_czkawka(env.scanner_code).raised # "none"
        THEN /\ Len(scans) = 1
             /\ scans[1].invoked # <<>>
             /\ groups = <<>>
             /\ returned = <<>>
             /\ ~csv_file.written
             /\ exit = ReturnCode(1)
        ELSE ~Defective => csv_file.written

----------------------------------------------------------------------------
(* The count of a row and the size of its group.                           *)

\* The k-th non-empty group, counted from 1: the group of the k-th row that
\* the loop of build_rows appends.
NthNonEmpty(k) ==
    CHOOSE g \in NonEmptyGroups : Cardinality({h \in NonEmptyGroups : h <= g}) = k

\* C29: in either mode the row built for a group counts that group's items
\* less one; the rows returned are the rows built, reordered and renumbered;
\* hence the counts of a returned list add up to the number of items of all
\* groups less the number of rows.
C29_CountIsItemsMinusOne ==
    /\ pc \in {"loop", "probe", "returned"} =>
          \A k \in 1..Len(rows) : rows[k].count = Len(groups[NthNonEmpty(k)]) - 1
    /\ pc = "returned" =>
          /\ Len(returned[Len(returned)]) = Len(rows)
          /\ \E p \in Permutations(Len(rows)) :
                \A k \in 1..Len(rows) :
                    /\ returned[Len(returned)][p[k]].count = rows[k].count
                    /\ returned[Len(returned)][p[k]].file_to_keep = rows[k].file_to_keep
                    /\ returned[Len(returned)][p[k]].files_to_remove = rows[k].files_to_remove
    /\ \A c \in 1..Len(returned) :
          SumOfCounts(returned[c]) = TotalItems(groups) - Len(returned[c])

----------------------------------------------------------------------------
(* The items of a group in another order.                                  *)

\* Items over two paths: of any size and date, and of any size.
DatedItems == [path : RowPaths, size : {IntVal(n) : n \in Sizes},
               modified_date : {IntVal(n) : n \in Dates}]

UndatedItems == [path : RowPaths, size : {IntVal(n) : n \in Sizes}, modified_date : {IntVal(0)}]

\* The groups holding the items of group in another order.
Shuffled(group) ==
    {[k \in 1..Len(group) |-> group[perm[k]]] : perm \in Permutations(Len(group))} \ {group}

\* One group: projected with dated items, reconciled with undated ones.
InitShuffle ==
    /\ \/ /\ mode = "test"
          /\ groups \in {<<g>> : g \in SeqsUpTo(DatedItems, MaxItems)}
       \/ /\ mode = "execute"
          /\ groups \in {<<g>> : g \in SeqsUpTo(UndatedItems, MaxItems)}
    /\ InitCommon

\* A second call, same mode and filesystem, on the group in another order.
BuildRowsCallShuffled ==
    /\ pc = "returned"
    /\ Len(returned) < 2
    /\ \E other \in Shuffled(groups[1]) : groups' = <<other>>
    /\ pc' = "loop"
    /\ gi' = 1
    /\ rows' = <<>>
    /\ fsAtCall' = Append(fsAtCall, fs)
    /\ UNCHANGED <<mode, fs, ii, existing, returned, probes, seen>>
    /\ UNCHANGED <<stage, cli>>

NextShuffle ==
    \/ BuildRowsCall
    \/ SkipEmptyGroup
    \/ ProjectGroup
    \/ ResolveEnter
    \/ Probe
    \/ ResolveDecide
    \/ SortAndReturn
    \/ BuildRowsCallShuffled

SpecShuffle == InitShuffle /\ [][NextShuffle]_vars

ProjectedShuffleReached ==
    /\ Len(returned) = 2
    /\ mode = "test"
    /\ Len(groups[1]) = 3
    /\ \A i \in 1..3 : groups[1][i].size = groups[1][1].size
    /\ \A i \in 1..3 : groups[1][i].modified_date = groups[1][1].modified_date
    /\ groups[1][1].path # groups[1][2].path

----------------------------------------------------------------------------
(* build_rows on items without a usable path.                              *)

\* An item dictionary given to build_rows directly: "path" holds a str, or
\* another value, or the key is absent.
TypedItem(path, path_type) ==
    [path |-> path, size |-> IntVal(0), modified_date |-> IntVal(0), path_type |-> path_type]

TypedItems ==
    {TypedItem(<<98>>, "str"), TypedItem(<<>>, "str"),
     TypedItem(<<>>, "absent"), TypedItem(<<>>, "other")}

TypedGroups == UNION {[1..k -> TypedItems] : k \in RowGroupLens}

InitPath ==
    /\ mode \in {"test", "execute"}
    /\ groups \in SeqsUpTo(TypedGroups, MaxGroups)
    /\ InitCommon

NextPath ==
    \/ BuildRowsCall
    \/ SkipEmptyGroup
    \/ ProjectGroup
    \/ ProjectGroupRaises
    \/ ResolveEnter
    \/ ResolveEnterRaises
    \/ Probe
    \/ ResolveDecide
    \/ SortAndReturn

SpecPath == InitPath /\ [][NextPath]_vars

\* The items whose path is missing, no string, or empty.
Unusable ==
    {gi_ii \in (1..Len(groups)) \X RowGroupLens :
        /\ gi_ii[2] >= 1
        /\ gi_ii[2] <= Len(groups[gi_ii[1]])
        /\ \/ groups[gi_ii[1]][gi_ii[2]].path_type # "str"
           \/ groups[gi_ii[1]][gi_ii[2]].path = <<>>}

\* C25: a call of build_rows whose groups hold an item without a usable path
\* never returns: it ends with a ValueError, raised for the first group that
\* holds such an item, and no row list, not even of the groups before it, is
\* handed to the caller; a call whose items all have usable paths returns.
C25_UnusablePathFailsWhole ==
    /\ (Unusable # {}) => (pc # "returned" /\ returned = <<>>)
    /\ pc = "raised" =>
          /\ error.kind = "ValueError"
          /\ returned = <<>>
          /\ \E u \in Unusable : u[1] = error.group
          /\ \A u \in Unusable : u[1] >= error.group
    /\ (Unusable = {}) => pc # "raised"

\* The call has failed on the last item of the second group after the row
\* of the first group was built.
C25_Witness ==
    /\ pc = "raised"
    /\ Len(groups) = 2
    /\ Len(groups[2]) = 2
    /\ Unusable = {<<2, 2>>}
    /\ Len(rows) = 1
    /\ error.group = 2

----------------------------------------------------------------------------
(* Reconciliation while other processes create and delete files.           *)

\* One reconciled call on a single group of items that differ in their path.
InitRace ==
    /\ mode = "execute"
    /\ groups \in {<<g>> : g \in SeqsUpTo(PlainItems, MaxItems)}
    /\ InitCommon

\* Between the entry of _resolve_execute_group, its probes and its decision,
\* other processes create and delete files.
FsChangeDuringCall ==
    /\ pc = "probe"
    /\ \E other \in FileSystemsFor(groups) : other # fs /\ fs' = other
    /\ UNCHANGED <<groups, mode, pc, gi, ii, existing, rows, returned, fsAtCall, probes, seen>>
    /\ UNCHANGED <<stage, cli>>

NextRace ==
    \/ BuildRowsCall
    \/ SkipEmptyGroup
    \/ ResolveEnter
    \/ Probe
    \/ FsChangeDuringCall
    \/ ResolveDecide
    \/ SortAndReturn

SpecRace == InitRace /\ [][NextRace]_vars

\* The probes that found a file, and those that found none.
SeenThere == {k \in 1..Len(seen) : seen[k].answer}

SeenGone == {k \in 1..Len(seen) : ~seen[k].answer}

\* The decision rests on the probes: one path was found and another was not.
SingleSurvivorDecided ==
    /\ Cardinality(SeenThere) = 1
    /\ \E k \in SeenGone : \A l \in SeenThere : seen[k].path # seen[l].path

\* No probe saw a filesystem other than the one at the entry of the call,
\* which is also the one at its return.
QuietCall == fs = fsAtCall[1] /\ \A k \in 1..Len(seen) : seen[k].fs = fsAtCall[1]

\* C28: the probes of a group are made one item after the other, in order,
\* each item once; whatever other processes do between the probes, the
\* decision returned is the projected one, or else it keeps a path that was
\* seen existing at its probe and removes only paths that were seen missing
\* at theirs; after a call during which the filesystem did not change, the
\* kept path of such a decision exists and no removed path does.
C28_SequentialProbes ==
    /\ pc = "probe" =>
          /\ Len(seen) = ii - 1
          /\ probes = Len(seen)
          /\ \A k \in 1..Len(seen) : seen[k].path = _path_value(groups[1][k])
    /\ OneRowReturned =>
          /\ Len(seen) = Len(TheGroup)
          /\ probes = Len(TheGroup)
          /\ IF SingleSurvivorDecided
             THEN /\ \E k \in SeenThere : seen[k].path = TheRow.file_to_keep
                  /\ \A r \in 1..Len(TheRow.files_to_remove) :
                        \E k \in SeenGone : seen[k].path = TheRow.files_to_remove[r]
                  /\ QuietCall =>
                        /\ fs[TheRow.file_to_keep] = "exists"
                        /\ \A r \in 1..Len(TheRow.files_to_remove) :
                              fs[TheRow.files_to_remove[r]] # "exists"
             ELSE /\ TheRow.file_to_keep = _project_group_aeb(TheGroup).keep
                  /\ TheRow.files_to_remove = _project_group_aeb(TheGroup).remove

\* A group of three has been decided on its probes: the first file was
\* found, then deleted, and the second file, found missing, was created
\* before the third probe.
C28_Witness ==
    /\ OneRowReturned
    /\ Len(TheGroup) = 3
    /\ SingleSurvivorDecided
    /\ seen[1].answer
    /\ seen[2].fs[seen[1].path] = "missing"
    /\ seen[3].fs[seen[2].path] = "exists"

\* A quiet call has been decided on its probes.
QuietSurvivorReached ==
    /\ OneRowReturned
    /\ SingleSurvivorDecided
    /\ QuietCall
    /\ TheRow.count = 2

----------------------------------------------------------------------------
(* _build_artifact_paths: the search for report paths (cli.py).            *)

\* The runs of czk that share out_dir, base name, media and timestamp.
Runs == {1, 2}

\* The counters that files left in out_dir by earlier runs carry.
EarlierCounters == 0..1

\* out_dir / f"{base_name}-{media}-{timestamp}{suffix}.{ext}": base name,
\* media and timestamp being shared, the counter and the extension name it.
ArtifactPath(counter, ext) == [counter |-> counter, ext |-> ext]

NoPath == [counter |-> -1, ext |-> "none"]

ArtifactNames == {ArtifactPath(c, e) : c \in EarlierCounters, e \in {"json", "csv"}}

RunIdle == [pc |-> "idle", counter |-> 0, json_path |-> NoPath, csv_path |-> NoPath]

\* Line 270: counter = 0.
SearchStarts(r) ==
    /\ runs[r].pc = "idle"
    /\ runs' = [runs EXCEPT ![r].pc = "json_exists", ![r].counter = 0]
    /\ UNCHANGED <<command, media, media_targets, env, scans, exit, out_dir>>
    /\ UNCHANGED <<engine, stage>>

\* Line 276, left operand: json_path.exists(); counter += 1 when it does.
ProbeJsonPath(r) ==
    /\ runs[r].pc = "json_exists"
    /\ runs' = IF ArtifactPath(runs[r].counter, "json") \in out_dir
               THEN [runs EXCEPT ![r].counter = @ + 1]
               ELSE [runs EXCEPT ![r].pc = "csv_exists"]
    /\ UNCHANGED <<command, media, media_targets, env, scans, exit, out_dir>>
    /\ UNCHANGED <<engine, stage>>

\* Line 276, right operand: csv_path.exists(); the pair is returned when it
\* does not (line 277), counter += 1 when it does.
ProbeCsvPath(r) ==
    /\ runs[r].pc = "csv_exists"
    /\ runs' = IF ArtifactPath(runs[r].counter, "csv") \in out_dir
               THEN [runs EXCEPT ![r].counter = @ + 1, ![r].pc = "json_exists"]
               ELSE [runs EXCEPT ![r].pc = "returned",
                                 ![r].json_path = ArtifactPath(runs[r].counter, "json"),
                                 ![r].csv_path = ArtifactPath(runs[r].counter, "csv")]
    /\ UNCHANGED <<command, media, media_targets, env, scans, exit, out_dir>>
    /\ UNCHANGED <<engine, stage>>

\* _scan_one_media lines 341-350: the run raises TypeError with its paths in
\* hand, before the scanner (line 352) or write_csv (line 356) has made a file.
ScanRaisesAfterPaths(r) ==
    /\ runs[r].pc = "returned"
    /\ RequiredKeywords \ GivenKeywords # {}
    /\ runs' = [runs EXCEPT ![r].pc = "raised"]
    /\ UNCHANGED <<command, media, media_targets, env, scans, exit, out_dir>>
    /\ UNCHANGED <<engine, stage>>

\* Two runs about to search, in a directory holding any files of earlier runs.
InitArtifact ==
    /\ StageIdle
    /\ command = "test"
    /\ media = "both"
    /\ media_targets = <<>>
    /\ env = [czkawka |-> TRUE, duckdb |-> TRUE, target_dir |-> TRUE,
              scanner_code |-> 0, session_code |-> 0]
    /\ scans = <<>>
    /\ exit = Running
    /\ out_dir \in SUBSET ArtifactNames
    /\ runs = [r \in Runs |-> RunIdle]
    /\ groups = <<>>
    /\ mode = "test"
    /\ fs = [p \in Paths |-> "missing"]
    /\ pc = "main"
    /\ gi = 1
    /\ ii = 1
    /\ existing = <<>>
    /\ rows = <<>>
    /\ returned = <<>>
    /\ fsAtCall = <<>>
    /\ probes = 0
    /\ seen = <<>>

NextArtifact ==
    \E r \in Runs :
        \/ SearchStarts(r)
        \/ ProbeJsonPath(r)
        \/ ProbeCsvPath(r)
        \/ ScanRaisesAfterPaths(r)

SpecArtifact == InitArtifact /\ [][NextArtifact]_vars

HasPaths(r) == runs[r].pc \in {"returned", "raised"}

\* Both paths of the stem numbered c are free.
FreeStem(c) ==
    /\ ArtifactPath(c, "json") \notin out_dir
    /\ ArtifactPath(c, "csv") \notin out_dir

\* C27: artifact paths: a run that has its paths from _build_artifact_paths
\* has a JSON path and a CSV path of the same stem, neither an existing
\* file of out_dir, with the smallest counter for which both are free, and
\* two runs that share out_dir, base name, media and timestamp have
\* different pairs.
C27_DistinctFreePaths ==
    \A r \in Runs :
        HasPaths(r) =>
            /\ runs[r].json_path.counter = runs[r].csv_path.counter
            /\ runs[r].json_path.ext = "json"
            /\ runs[r].csv_path.ext = "csv"
            /\ FreeStem(runs[r].json_path.counter)
            /\ \A c \in 0..(runs[r].json_path.counter - 1) : ~FreeStem(c)
            /\ \A q \in Runs \ {r} :
                  HasPaths(q) => <<runs[q].json_path, runs[q].csv_path>>
                                 # <<runs[r].json_path, runs[r].csv_path>>

\* What holds of one run: the same stem, free, with the smallest counter.
SmallestFreeStem ==
    \A r \in Runs :
        HasPaths(r) =>
            /\ runs[r].json_path = ArtifactPath(runs[r].counter, "json")
            /\ runs[r].csv_path = ArtifactPath(runs[r].counter, "csv")
            /\ FreeStem(runs[r].counter)
            /\ \A c \in 0..(runs[r].counter - 1) : ~FreeStem(c)

\* The search ends: the counter never passes the number of files in out_dir.
SearchIsBounded == \A r \in Runs : runs[r].counter <= Cardinality(out_dir)

\* Two runs that have searched the same directory hold the same pair.
BothRunsHoldSamePaths ==
    (\A r \in Runs : HasPaths(r)) =>
        \A r, q \in Runs : runs[r].json_path = runs[q].json_path
====
